---- MODULE Spec2Model ----
(***************************************************************************)
(* Model of the reconciliation engine of obsidian-mstodo-sync:             *)
(*   - MsTodoActions.mergeCollections        (pure merge of snapshots)     *)
(*   - MsTodoActions.getTaskDelta / TodoApi.getTasksDelta (delta cache)    *)
(*   - MsTodoActions.postTask and MsTodoActions.syncVault (reconciler)     *)
(*   - ObsidianTodoTask.cacheTaskId and the block-id registry              *)
(* The specifications share the variables: SpecMerge, SpecAssoc,           *)
(* SpecDelta, SpecRegistry and Spec.                                       *)
(***************************************************************************)
EXTENDS Integers, Sequences, FiniteSets, TLC

VARIABLES
    col1, col2, merged, remerged, mpc,     \* mergeCollections driver
    col3, assocL, assocR,                  \* third input and the two groupings of a triple merge
    callArgs, callResult,                  \* the arguments and the return value of a function followed on its own
    cacheFile,                             \* the persisted delta cache file (mstd-tasks-delta.json)
    refresh,                               \* per getTaskDelta call: its position and locals
    started,                               \* getTaskDelta calls started so far
    settings,                              \* plugin settings: taskIdLookup, taskIdIndex, flags
    doc,                                   \* the lines of the active document
    mtime,                                 \* the document's modification time
    gateway,                               \* the remote service: lists and tasks
    clock,                                 \* the time of the next write
    calls,                                 \* gateway writes issued so far, in order
    cmd,                                   \* the command in progress and its locals
    savedSettings,                         \* the settings as last written to data.json
    saving,                                \* saveData writes in flight, oldest first
    held,                                  \* anchors cacheTaskId has handed to its callers
    adders,                                \* per addMissingTasksToVault run: its position and locals
    second,                                \* a command waiting at an await while cmd runs
    actionQueue                            \* the ActionQueue object and its processQueue runs

mergeVars == <<col1, col2, merged, remerged, mpc, col3, assocL, assocR, callArgs, callResult>>
deltaVars == <<cacheFile, refresh, started>>
reconVars == <<settings, doc, mtime, gateway, clock, calls, cmd>>
regVars == <<savedSettings, saving, held, adders, second, actionQueue, actionQueue>>
vars == <<mergeVars, deltaVars, reconVars, regVars>>

----------------------------------------------------------------------------
(* ActionQueue.  An action is the number addAction was called with; a run  *)
(* of processQueue is a record of runs: where it waits and for which       *)
(* action.  order lists the actions in the order they were called.         *)

IdleQueue == [queue |-> <<>>, isProcessing |-> FALSE, runs |-> <<>>, order |-> <<>>]

\* Lines 19-26: the while loop of run r from its condition to its next
\* await, or to the end of processQueue.
whileLoop(q, r) ==
    IF Len(q.queue) > 0
    THEN [q EXCEPT !.queue = Tail(@),
                   !.runs[r] = [pc |-> "action", action |-> Head(q.queue)],
                   !.order = Append(@, Head(q.queue))]
    ELSE [q EXCEPT !.isProcessing = FALSE,
                   !.runs[r] = [pc |-> "returned", action |-> 0]]

\* Lines 17-18: processQueue is called and runs to its first await.
processQueue(q) ==
    whileLoop([q EXCEPT !.isProcessing = TRUE,
                        !.runs = Append(@, [pc |-> "called", action |-> 0])],
              Len(q.runs) + 1)

\* An addAction that calls processQueue whatever isProcessing says.
addAction_AlwaysProcesses(q, action) ==
    processQueue([q EXCEPT !.queue = Append(@, action)])

\* Lines 10-15: push, and call processQueue unless one is running.
addAction(q, action) ==
    LET pushed == [q EXCEPT !.queue = Append(@, action)]
    IN IF ~q.isProcessing THEN processQueue(pushed) ELSE pushed

----------------------------------------------------------------------------
(* Remote task snapshots (TodoTask as returned by the gateway and stored   *)
(* in the delta cache).  Ids are numbers; an absent id or timestamp is 0,   *)
(* an absent due date is "".  A title is a sequence of words and glyphs.   *)

NoId == 0

\* A function that has not returned yet, and one that returned value.
NoResult == [done |-> FALSE, value |-> <<>>]
Return(value) == [done |-> TRUE, value |-> value]
NoTime == 0
NoDate == ""

\* Longest collection handed to mergeCollections.
MaxLen == 2

Snapshot(id, ts, title, status, importance, due, linked) ==
    [id |-> id, lastModifiedDateTime |-> ts, title |-> title, status |-> status,
     importance |-> importance, due |-> due, linked |-> linked]

\* Snapshots the merge driver draws its collections from: two ids, records
\* with and without a timestamp, and two records of one id with equal
\* timestamps and different content.
MergeTasks ==
    { Snapshot(1, 1, <<"A">>, "notStarted", "normal", NoDate, FALSE),
      Snapshot(1, 1, <<"B">>, "notStarted", "normal", NoDate, FALSE),
      Snapshot(1, 2, <<"A">>, "notStarted", "normal", NoDate, FALSE),
      Snapshot(1, NoTime, <<"A">>, "notStarted", "normal", NoDate, FALSE),
      Snapshot(2, 1, <<"A">>, "notStarted", "normal", NoDate, FALSE),
      Snapshot(2, NoTime, <<"B">>, "notStarted", "normal", NoDate, FALSE),
      Snapshot(NoId, 1, <<"A">>, "notStarted", "normal", NoDate, FALSE) }

SeqsUpTo(S, n) == UNION { [1..k -> S] : k \in 0..n }

Range(s) == { s[i] : i \in 1..Len(s) }

----------------------------------------------------------------------------
(* mergeCollections: a Map keyed by id, kept here as a sequence in the     *)
(* Map's insertion order (Map.set on an existing key keeps its position).  *)

\* A lookup that never finds the key: every item is appended.
IndexOfId_NeverFound(map, id) == 0

IndexOfId(map, id) ==
    IF \E i \in 1..Len(map) : map[i].id = id
    THEN CHOOSE i \in 1..Len(map) : map[i].id = id
    ELSE 0

\* new Date(a) > new Date(b)
\* A comparison that answers "differs" instead of "later".
DateAfter_Differs(a, b) == a # b

DateAfter(a, b) == a > b

addToMap(map, item) ==
    IF item.id # NoId /\ item.lastModifiedDateTime # NoTime
    THEN LET pos == IndexOfId(map, item.id) IN
         IF pos = 0
         THEN Append(map, item)
         ELSE IF DateAfter(item.lastModifiedDateTime, map[pos].lastModifiedDateTime)
              THEN [map EXCEPT ![pos] = item]
              ELSE map
    ELSE map

RECURSIVE addAll(_, _)
addAll(map, col) ==
    IF col = <<>> THEN map ELSE addAll(addToMap(map, Head(col)), Tail(col))

mergeCollections(c1, c2) == addAll(addAll(<<>>, c1), c2)

----------------------------------------------------------------------------
(* The delta cache: MsTodoActions.getTaskDelta over TodoApi.getTasksDelta. *)
(* The gateway is the environment: it answers every GET with a page of its *)
(* choice.  A delta link is opaque to the program; the model lets a link   *)
(* carry the tasks of the page chain it ends, so that a stored link names  *)
(* the batch it was issued with.                                           *)

\* getTaskDelta calls that may be started in one behaviour.
MaxRefresh == 3
\* Pages of one delta chain (first page included).
MaxPages == 2

\* getTaskDelta calls that can be in flight together (postTask starts one
\* per tracked selected line under Promise.all).
Calls == {"c1", "c2"}

\* A getTaskDelta call followed from its start to its end with no other
\* call in flight.
OneCall == {"c1"}

EmptyLink == [issued |-> FALSE, batch |-> {}]
DeltaLink(tasks) == [issued |-> TRUE, batch |-> tasks]

\* Snapshots the gateway puts on delta pages.
DeltaTasks ==
    { Snapshot(1, 1, <<"A">>, "notStarted", "normal", NoDate, FALSE),
      Snapshot(1, 2, <<"B">>, "notStarted", "normal", NoDate, FALSE) }

PageValues == SeqsUpTo(DeltaTasks, 1)

\* The task lists the gateway reports (TodoTaskList id, displayName).
GatewayLists ==
    << [id |-> 1, displayName |-> "Tasks"],
       [id |-> 2, displayName |-> "Work"] >>

TasksDeltaCollection(allTasks, deltaLink, listId, name) ==
    [allTasks |-> allTasks, deltaLink |-> deltaLink, listId |-> listId, name |-> name]

NoFile == [exists |-> FALSE, allLists |-> <<>>]
FileOf(allLists) == [exists |-> TRUE, allLists |-> allLists]

\* Lines 728-732: one empty collection per list that has an id and a name.
NewCache(lists) ==
    [i \in 1..Len(lists) |->
        TasksDeltaCollection(<<>>, EmptyLink, lists[i].id, lists[i].displayName)]

\* The link is advanced and the batch is left out of a non-empty list.
ApplyDelta_LinkOnly(list, returnedTask) ==
    IF Len(list.allTasks) > 0
    THEN [list EXCEPT !.deltaLink = returnedTask.deltaLink]
    ELSE [list EXCEPT !.allTasks = returnedTask.allTasks,
                      !.deltaLink = returnedTask.deltaLink]

\* Lines 746-759: merge into a non-empty list, take the batch as it is
\* when the cached list is empty.
ApplyDelta(list, returnedTask) ==
    IF Len(list.allTasks) > 0
    THEN [list EXCEPT !.allTasks = mergeCollections(list.allTasks, returnedTask.allTasks),
                      !.deltaLink = returnedTask.deltaLink]
    ELSE [list EXCEPT !.allTasks = returnedTask.allTasks,
                      !.deltaLink = returnedTask.deltaLink]

\* skipRemoteCheck: every list is merged with an empty collection whose
\* link is '' (line 741); nothing is awaited in the loop.
SkipRemoteAll(allLists) ==
    [i \in 1..Len(allLists) |->
        ApplyDelta(allLists[i],
                   TasksDeltaCollection(<<>>, EmptyLink, allLists[i].listId, allLists[i].name))]

\* TodoApi.getTasksDelta, lines 202-206: the link passed in is kept unless
\* the last response carries an @odata.deltaLink.
ReturnedLink(response, deltaLink) ==
    IF response.deltaLink # EmptyLink THEN response.deltaLink ELSE deltaLink

\* What setDeltaCache writes: the whole in-memory collection.
Persisted(allLists) == FileOf(allLists)

----------------------------------------------------------------------------
(* Documents, lines and task records (ObsidianTodoTask).  A line is kept   *)
(* as its tokens: bullet, status box, title words (importance glyphs       *)
(* included, the parser leaves them in the title), list tag, due date,     *)
(* created date and trailing block link.                                   *)

\* A block id is its text, one character per element.
Digits == <<"0", "1", "2", "3", "4", "5", "6", "7", "8", "9">>

\* Number.toString() of a non-negative integer.
RECURSIVE toString(_)
toString(n) ==
    IF n < 10 THEN <<Digits[n + 1]>>
    ELSE Append(toString(n \div 10), Digits[(n % 10) + 1])

\* String.padStart(width, fill) with a one-character fill.
RECURSIVE padStart(_, _, _)
padStart(text, width, fill) ==
    IF Len(text) >= width THEN text ELSE padStart(<<fill>> \o text, width, fill)

PadWidth == 5
Prefix == <<"M", "S", "T", "D">>

\* The template literal of cacheTaskId: prefix, random characters, padded
\* counter.
Anchor(prefix, suffix, index) ==
    prefix \o suffix \o padStart(toString(index), PadWidth, "0")
NoAnchor == <<>>

\* String.toLowerCase on a block id; digits and lower-case letters map to
\* themselves.
UpperCase == <<"M", "S", "T", "D">>
LowerCase == <<"m", "s", "t", "d">>
toLowerCase(blockId) ==
    [k \in 1..Len(blockId) |->
        IF \E u \in 1..Len(UpperCase) : UpperCase[u] = blockId[k]
        THEN LowerCase[CHOOSE u \in 1..Len(UpperCase) : UpperCase[u] = blockId[k]]
        ELSE blockId[k]]

\* The draw of Math.random().toString(20).slice(2, 6) the vault commands
\* meet; SpecRegistry follows the others.
Suffixes == {<<"c", "3", "d", "4">>}

Line(bullet, box, title, list, due, created, anchor) ==
    [bullet |-> bullet, box |-> box, title |-> title, list |-> list,
     due |-> due, created |-> created, anchor |-> anchor]

\* What join('\n') renders for an undefined element: an empty line.
BlankLine == Line("", "", <<>>, "", NoDate, "", NoAnchor)

HighGlyph == "high-glyph"
LowGlyph == "low-glyph"
Today == "today"

\* settings.todoListSync and the replacement template with every
\* placeholder.
DefaultList == [listName |-> "Tasks", listId |-> 1]

NoTask == Snapshot(NoId, NoTime, <<>>, "", "", NoDate, FALSE)

\* taskIdLookup[blockLink]: a property read, exact in letter case.
LookupExact(taskIdLookup, blockLink) ==
    IF \E i \in 1..Len(taskIdLookup) : taskIdLookup[i].blockId = blockLink
    THEN taskIdLookup[CHOOSE i \in 1..Len(taskIdLookup) : taskIdLookup[i].blockId = blockLink].taskId
    ELSE NoId

\* SettingsManager.getTaskIdFromBlockId: first key equal up to letter case.
getTaskIdFromBlockId(taskIdLookup, blockId) ==
    LET hits == { i \in 1..Len(taskIdLookup) :
                    toLowerCase(taskIdLookup[i].blockId) = toLowerCase(blockId) }
    IN  IF hits = {} THEN NoId
        ELSE taskIdLookup[CHOOSE i \in hits : \A j \in hits : i <= j].taskId

\* Registries that answer every hasTaskId question the same way.
hasTaskId_Never(taskIdLookup, taskId) == FALSE
hasTaskId_Always(taskIdLookup, taskId) == TRUE

\* SettingsManager.hasTaskId: some key maps to taskId.
hasTaskId(taskIdLookup, taskId) ==
    \E i \in 1..Len(taskIdLookup) : taskIdLookup[i].taskId = taskId

\* A registry write that forgets the keys written before.
SetEntry_Only(taskIdLookup, index, id) == <<[blockId |-> index, taskId |-> id]>>

\* taskIdLookup[index] = id: a property write, replacing the value of a key
\* already present and adding the key otherwise.
SetEntry(taskIdLookup, index, id) ==
    IF \E i \in 1..Len(taskIdLookup) : taskIdLookup[i].blockId = index
    THEN [i \in 1..Len(taskIdLookup) |->
            IF taskIdLookup[i].blockId = index
            THEN [blockId |-> index, taskId |-> id] ELSE taskIdLookup[i]]
    ELSE Append(taskIdLookup, [blockId |-> index, taskId |-> id])

\* A block id built from the random characters alone.
NewIndex_NoCounter(taskIdIndex, suffix) == Prefix \o suffix

\* The block id cacheTaskId builds when the counter is taskIdIndex and
\* Math.random draws suffix.
NewIndex(taskIdIndex, suffix) == Anchor(Prefix, suffix, taskIdIndex + 1)

\* ObsidianTodoTask.cacheTaskId on the in-memory settings.
cacheTaskId(s, id, suffix) ==
    [s EXCEPT !.taskIdIndex = @ + 1,
              !.taskIdLookup = SetEntry(@, NewIndex(s.taskIdIndex, suffix), id)]

\* SettingsManager.saveSettings as cacheTaskId calls it, without awaiting
\* it: plugin.saveData is handed the settings as they are now and the write
\* of data.json is left in flight.
saveSettings(queue, s) == Append(queue, s)

\* What the caller of cacheTaskId holds when the call has returned: the
\* block link, the id, and the random draw it was built from.
Handed(index, id, suffix) == [blockLink |-> index, id |-> id, suffix |-> suffix]

checkForStatus(box) == IF box = "x" THEN "completed" ELSE "notStarted"

checkForImportance(title) ==
    IF HighGlyph \in Range(title) THEN "high"
    ELSE IF LowGlyph \in Range(title) THEN "low"
    ELSE "normal"

\* new ObsidianTodoTask(settingsManager, line)
ObsidianTodoTask(taskIdLookup, line) ==
    [title |-> line.title,
     status |-> checkForStatus(line.box),
     importance |-> checkForImportance(line.title),
     due |-> line.due,
     listName |-> IF line.list = "" THEN DefaultList.listName ELSE line.list,
     blockLink |-> line.anchor,
     id |-> IF line.anchor # NoAnchor THEN LookupExact(taskIdLookup, line.anchor) ELSE NoId]

hasBlockLink(todo) == todo.blockLink # NoAnchor
hasId(todo) == todo.id # NoId

\* A dueDateTime property as JavaScript holds it: undefined (the property is
\* not there), null, or a DateTimeTimeZone value. dateTime is the ISO text
\* cut into its parts, <<date>> or <<date, time>>, and <<>> for the empty
\* text.
Undefined == [kind |-> "undefined", dateTime |-> <<>>, timeZone |-> ""]
Null == [kind |-> "null", dateTime |-> <<>>, timeZone |-> ""]
DateTimeTimeZone(dateTime, timeZone) ==
    [kind |-> "value", dateTime |-> dateTime, timeZone |-> timeZone]

\* The dueDateTime property of a record. Records that carry only the date
\* on the line (due) have no property when there is no date and a date-only
\* value otherwise.
dueDateTime(task) ==
    IF "dueDateTime" \in DOMAIN task THEN task.dueDateTime
    ELSE IF task.due = NoDate THEN Undefined
    ELSE DateTimeTimeZone(<<task.due>>, "utc")

\* DateTime.fromISO(due?.dateTime ?? '', { zone: due?.timeZone ?? 'utc' }):
\* the text is read as wall-clock time in the zone; the empty text gives an
\* invalid DateTime.
fromISO(due) ==
    LET text == IF due.kind = "value" THEN due.dateTime ELSE <<>>
        zone == IF due.kind = "value" THEN due.timeZone ELSE "utc"
    IN  IF Len(text) = 0 THEN [isValid |-> FALSE, date |-> NoDate, zone |-> zone]
        ELSE [isValid |-> TRUE, date |-> text[1], zone |-> zone]

\* x?.toISODate(), where x is undefined when the property is undefined and
\* fromISO(...) otherwise: undefined stays undefined, an invalid DateTime
\* gives null, a valid one gives the calendar date in its own zone.
toISODate(due) ==
    IF due.kind = "undefined" THEN "undefined"
    ELSE IF ~fromISO(due).isValid THEN "null"
    ELSE fromISO(due).date

equals(todo, todoTask) ==
    /\ todo.title = todoTask.title
    /\ todo.status = todoTask.status
    /\ toISODate(dueDateTime(todo)) = toISODate(dueDateTime(todoTask))
    /\ todo.importance = todoTask.importance

\* The request body of a create or update. dueDateTime is the record's
\* value when it has one and null otherwise; for records that carry only
\* the date on the line, NoDate stands for the null.
getTodoTask(todo) ==
    IF "dueDateTime" \in DOMAIN todo
    THEN [title |-> todo.title, status |-> todo.status, importance |-> todo.importance,
          dueDateTime |-> IF todo.dueDateTime.kind = "value" THEN todo.dueDateTime ELSE Null]
    ELSE [title |-> todo.title, status |-> todo.status,
          importance |-> todo.importance, due |-> todo.due]

updateFromTodoTask(todo, remoteTask) ==
    [todo EXCEPT !.title = remoteTask.title,
                 !.status = IF remoteTask.status # "" THEN remoteTask.status ELSE @,
                 !.importance = IF remoteTask.importance # "" THEN remoteTask.importance ELSE @,
                 !.due = IF remoteTask.due # NoDate THEN remoteTask.due ELSE @]

getStatusIndicator(status) ==
    CASE status = "notStarted" -> " "
      [] status = "inProgress" -> "/"
      [] status = "completed" -> "x"
      [] OTHER -> ""

getPriorityIndicator(importance) ==
    IF importance = "high" THEN HighGlyph ELSE LowGlyph

\* getMarkdownTask(true): the template filled in; the created date is the
\* day of the call, the glyph is added unless the text already has it.
getMarkdownTask(todo) ==
    Line("-",
         getStatusIndicator(todo.status),
         IF todo.importance = "normal" \/ getPriorityIndicator(todo.importance) \in Range(todo.title)
         THEN todo.title
         ELSE Append(todo.title, getPriorityIndicator(todo.importance)),
         todo.listName,
         todo.due,
         Today,
         todo.blockLink)

\* "cachedTask && !todo.equals(cachedTask)", ignoring the snapshot.
needsUpdate_Always(todo, cachedTask) == cachedTask # NoTask

\* "cachedTask && !todo.equals(cachedTask)", ignoring whether there is one.
needsUpdate_NoCacheCheck(todo, cachedTask) == ~equals(todo, cachedTask)

\* postTask lines 514 and 537: cachedTask && !todo.equals(cachedTask)
needsUpdate(todo, cachedTask) == cachedTask # NoTask /\ ~equals(todo, cachedTask)

\* new Date(a) < new Date(b)
DateBefore(a, b) == a < b

\* syncVault line 170
localTaskNewer(cachedTask, localMtime) == DateBefore(cachedTask.lastModifiedDateTime, localMtime)

\* getListAndTaskFromTaskId lines 244-249: the first list holding the id.
FindTask(allLists, taskId) ==
    LET hits == { i \in 1..Len(allLists) : IndexOfId(allLists[i].allTasks, taskId) # 0 }
    IN  IF taskId = NoId \/ hits = {}
        THEN [list |-> NoId, task |-> NoTask]
        ELSE LET i == CHOOSE k \in hits : \A j \in hits : k <= j
             IN  [list |-> allLists[i].listId,
                  task |-> allLists[i].allTasks[IndexOfId(allLists[i].allTasks, taskId)]]

\* cachedTasksDelta.allLists.find(l => l.name === todo.listName)?.listId
\* A lookup that falls back to the first cached list.
ListIdByName_FirstList(allLists, name) ==
    IF allLists = <<>> THEN NoId ELSE allLists[1].listId

ListIdByName(allLists, name) ==
    LET hits == { i \in 1..Len(allLists) : allLists[i].name = name }
    IN  IF hits = {} THEN NoId
        ELSE allLists[CHOOSE k \in hits : \A j \in hits : k <= j].listId

\* String.replace(taskContent, updatedTask): the first occurrence only.
ReplaceFirst(page, taskContent, updatedTask) ==
    LET hits == { i \in 1..Len(page) : page[i] = taskContent }
    IN  IF hits = {} THEN page
        ELSE [page EXCEPT ![CHOOSE k \in hits : \A j \in hits : k <= j] = updatedTask]

----------------------------------------------------------------------------
(* The remote service behind TodoApi, the settings blob and the locals of  *)
(* a running command.                                                      *)

NoBody == [title |-> <<>>, status |-> "", importance |-> "", due |-> NoDate]

GatewayCall(op, line, blockId, listId, taskId, body) ==
    [op |-> op, line |-> line, blockId |-> blockId, listId |-> listId,
     taskId |-> taskId, body |-> body]

IdleSettings ==
    [taskIdLookup |-> <<>>, taskIdIndex |-> 0, todo_CreateToDoListIfMissing |-> FALSE]

IdleGateway == [lists |-> <<>>, tasks |-> <<>>, nextTaskId |-> 0]

IdleCmd ==
    [op |-> "none", pc |-> "idle", replace |-> FALSE, lines |-> {},
     source |-> <<>>, mtime |-> 0, pending |-> {}, modifiedPage |-> <<>>,
     cachedTasksDelta |-> <<>>, entry |-> 0, items |-> <<>>, keys |-> <<>>,
     failed |-> FALSE, notices |-> <<>>]

\* Runs of addMissingTasksToVault that may be in progress together: the
\* menu item starts one without waiting for the one before.
Adders == {"a1", "a2"}
IdleAdder ==
    [pc |-> "idle", editor |-> FALSE, cachedTasksDelta |-> <<>>, before |-> <<>>,
     minted |-> <<>>, addedTasks |-> <<>>, overlapped |-> FALSE]

\* GET /me/todo/lists/{id}/tasks/delta: the tasks of the list.
TasksOfList(g, listId) ==
    LET RECURSIVE pick(_)
        pick(k) == IF k = 0 THEN <<>>
                   ELSE IF g.tasks[k].listId = listId
                        THEN Append(pick(k - 1), g.tasks[k].task)
                        ELSE pick(k - 1)
    IN  pick(Len(g.tasks))

\* TodoApi.getTasksDelta for one list, the answer arriving on one page
\* that carries the delta link.
getTasksDelta(g, list) ==
    LET value == TasksOfList(g, list.listId)
    IN  TasksDeltaCollection(value,
                             ReturnedLink([deltaLink |-> DeltaLink(Range(value))], list.deltaLink),
                             list.listId, list.name)

\* getTaskDelta(false, skipRemoteCheck) run to its end: the collection it
\* returns (and saves unless skipRemoteCheck).
getTaskDelta(file, g, skipRemoteCheck) ==
    LET cachedTasksDelta == IF file.exists THEN file.allLists ELSE NewCache(g.lists)
    IN  IF skipRemoteCheck
        THEN SkipRemoteAll(cachedTasksDelta)
        ELSE [i \in 1..Len(cachedTasksDelta) |->
                ApplyDelta(cachedTasksDelta[i], getTasksDelta(g, cachedTasksDelta[i]))]

\* POST /me/todo/lists/{listId}/tasks
createTaskFromToDo(g, listId, toDo, now) ==
    [g EXCEPT !.tasks = Append(@, [listId |-> listId,
                                   task |-> Snapshot(g.nextTaskId, now, toDo.title, toDo.status,
                                                     toDo.importance, toDo.due, TRUE)]),
              !.nextTaskId = @ + 1]

\* PATCH /me/todo/lists/{listId}/tasks/{taskId}
updateTaskFromToDo(g, taskId, toDo, now) ==
    [g EXCEPT !.tasks =
        [k \in 1..Len(@) |->
            IF @[k].task.id = taskId
            THEN [@[k] EXCEPT !.task = [@ EXCEPT !.title = toDo.title,
                                                 !.status = toDo.status,
                                                 !.importance = toDo.importance,
                                                 !.due = toDo.due,
                                                 !.lastModifiedDateTime = now]]
            ELSE @[k]]]

\* POST or PATCH .../tasks/{taskId}/linkedResources
linkResource(g, taskId) ==
    [g EXCEPT !.tasks =
        [k \in 1..Len(@) |->
            IF @[k].task.id = taskId THEN [@[k] EXCEPT !.task.linked = TRUE] ELSE @[k]]]

\* POST /me/todo/lists
createTaskList(g, displayName) ==
    [g EXCEPT !.lists = Append(@, [id |-> Len(@) + 1, displayName |-> displayName])]

\* The entry of the local index syncVault builds for a block id: the last
\* block of the page with that id, lower-cased.
\* An index that gives the first line of the page for every block id.
LocalTask_FirstLine(page, pageMtime, blockId) ==
    [found |-> TRUE, mtime |-> pageMtime, taskLine |-> page[1]]

LocalTask(page, pageMtime, blockId) ==
    LET hits == { i \in 1..Len(page) :
                    page[i].anchor # NoAnchor /\ toLowerCase(page[i].anchor) = blockId }
    IN  IF hits = {} THEN [found |-> FALSE, mtime |-> pageMtime, taskLine |-> BlankLine]
        ELSE [found |-> TRUE, mtime |-> pageMtime,
              taskLine |-> page[CHOOSE k \in hits : \A j \in hits : j <= k]]

\* What the last finished TodoApi.getTasksDelta of a call was given and
\* what it returned.
NoReturn ==
    [done |-> FALSE, given |-> <<>>, nextLink |-> FALSE, pageLink |-> EmptyLink,
     passed |-> EmptyLink, allTasks |-> <<>>, deltaLink |-> EmptyLink]

IdleCall ==
    [pc |-> "idle", reset |-> FALSE, skipRemoteCheck |-> FALSE,
     cachedTasksDelta |-> <<>>, li |-> 0, allTasks |-> <<>>, pages |-> 0,
     sent |-> {}, before |-> NoFile,
     last |-> NoReturn, got |-> {}, tokens |-> {}]

InitDelta ==
    /\ cacheFile = NoFile
    /\ refresh = [c \in Calls |-> IdleCall]
    /\ started = 0
    /\ col1 = <<>> /\ col2 = <<>> /\ merged = <<>> /\ remerged = <<>> /\ mpc = "off"
    /\ col3 = <<>> /\ assocL = <<>> /\ assocR = <<>>
    /\ callArgs = <<>> /\ callResult = NoResult
    /\ settings = IdleSettings
    /\ doc = <<>>
    /\ mtime = 0
    /\ gateway = IdleGateway
    /\ clock = 0
    /\ calls = <<>>
    /\ cmd = IdleCmd
    /\ savedSettings = IdleSettings
    /\ saving = <<>>
    /\ held = <<>>
    /\ adders = [a \in Adders |-> IdleAdder]
    /\ second = IdleCmd
    /\ actionQueue = IdleQueue

Active(c) == refresh[c].pc \notin {"idle", "done", "failed"}

\* A write of the file by call c: the other calls in flight see a new
\* "content not written by me".
WriteFile(c, file, mine) ==
    /\ cacheFile' = file
    /\ refresh' = [d \in Calls |->
                     IF d = c THEN mine
                     ELSE IF Active(d) THEN [refresh[d] EXCEPT !.before = file]
                     ELSE refresh[d]]

\* getTaskDelta(reset, skipRemoteCheck) is called.
StartRefresh(c, reset, skip) ==
    /\ ~Active(c)
    /\ started < MaxRefresh
    /\ started' = started + 1
    /\ refresh' = [refresh EXCEPT ![c] =
                     [IdleCall EXCEPT !.pc = IF reset THEN "reset" ELSE "read",
                                      !.reset = reset, !.skipRemoteCheck = skip,
                                      !.before = cacheFile,
                                      !.tokens = { cacheFile.allLists[i].deltaLink :
                                                     i \in 1..Len(cacheFile.allLists) }]]
    /\ UNCHANGED <<cacheFile, mergeVars, reconVars, regVars>>

\* A reset that leaves the file where it is.
ResetDeltaCache_KeepsFile(c) ==
    /\ refresh[c].pc = "reset"
    /\ refresh' = [refresh EXCEPT ![c].pc = "read"]
    /\ UNCHANGED <<cacheFile, started, mergeVars, reconVars, regVars>>

\* resetDeltaCache: remove the file when it exists.
ResetDeltaCache(c) ==
    /\ refresh[c].pc = "reset"
    /\ WriteFile(c, NoFile, [refresh[c] EXCEPT !.pc = "read", !.before = NoFile])
    /\ UNCHANGED <<started, mergeVars, reconVars, regVars>>

\* The loop of lines 738-760 from list li on, up to its next await.
EnterLoop(call, allLists, li) ==
    IF call.skipRemoteCheck
    THEN [call EXCEPT !.pc = "done", !.cachedTasksDelta = SkipRemoteAll(allLists), !.li = li]
    ELSE IF li > Len(allLists)
    THEN [call EXCEPT !.pc = "save", !.cachedTasksDelta = allLists, !.li = li]
    ELSE [call EXCEPT !.pc = "fetch", !.cachedTasksDelta = allLists, !.li = li,
                      !.allTasks = <<>>, !.pages = 0, !.sent = {}]

\* getDeltaCache: the parsed file, or undefined when there is none.
GetDeltaCache(c) ==
    /\ refresh[c].pc = "read"
    /\ refresh' = [refresh EXCEPT ![c] =
                     IF cacheFile.exists
                     THEN EnterLoop(refresh[c], cacheFile.allLists, 1)
                     ELSE [refresh[c] EXCEPT !.pc = "lists"]]
    /\ UNCHANGED <<cacheFile, started, mergeVars, reconVars, regVars>>

\* todoApi.getLists() resolves.
GetLists(c) ==
    /\ refresh[c].pc = "lists"
    /\ refresh' = [refresh EXCEPT ![c] = EnterLoop(refresh[c], NewCache(GatewayLists), 1)]
    /\ UNCHANGED <<cacheFile, started, mergeVars, reconVars, regVars>>

\* TodoApi.getTasksDelta after a response arrived: lines 190-208 and the
\* caller's lines 746-759, up to the next await.
OnResponse(call, response) ==
    LET allTasks == IF Len(response.value) > 0
                    THEN call.allTasks \o response.value ELSE call.allTasks
        list == call.cachedTasksDelta[call.li]
        returned == [done |-> TRUE, given |-> call.allTasks \o response.value,
                     nextLink |-> response.nextLink, pageLink |-> response.deltaLink,
                     passed |-> list.deltaLink, allTasks |-> allTasks,
                     deltaLink |-> ReturnedLink(response, list.deltaLink)]
    IN IF Len(response.value) > 0 /\ response.nextLink
       THEN [call EXCEPT !.pc = "fetch", !.allTasks = allTasks, !.pages = @ + 1,
                         !.sent = @ \cup Range(response.value),
                         !.got = @ \cup Range(response.value)]
       ELSE EnterLoop([call EXCEPT !.last = returned,
                                   !.got = @ \cup Range(response.value)],
                [call.cachedTasksDelta EXCEPT ![call.li] =
                    ApplyDelta(list, TasksDeltaCollection(allTasks,
                                   ReturnedLink(response, list.deltaLink),
                                   list.listId, list.name))],
                call.li + 1)

\* The gateway answers a GET of the delta endpoint, of a delta link or of a
\* next link with a page: tasks, and a next link or else a delta link.
FetchPage(c) ==
    /\ refresh[c].pc = "fetch"
    /\ \E value \in PageValues, nextLink \in BOOLEAN :
          /\ nextLink => refresh[c].pages + 1 < MaxPages
          /\ LET sent == refresh[c].sent \cup Range(value)
                 response == [value |-> value, nextLink |-> nextLink,
                              deltaLink |-> IF nextLink THEN EmptyLink ELSE DeltaLink(sent)]
             IN refresh' = [refresh EXCEPT ![c] = OnResponse(refresh[c], response)]
    /\ UNCHANGED <<cacheFile, started, mergeVars, reconVars, regVars>>

\* A rejection handler that writes what was fetched so far.
GatewayRejects_SavesPartial(c) ==
    /\ refresh[c].pc \in {"lists", "fetch"}
    /\ WriteFile(c, FileOf(refresh[c].cachedTasksDelta), [refresh[c] EXCEPT !.pc = "failed"])
    /\ UNCHANGED <<started, mergeVars, reconVars, regVars>>

\* A gateway call (getLists or a GET of getTasksDelta) rejects: the
\* exception leaves getTaskDelta.
GatewayRejects(c) ==
    /\ refresh[c].pc \in {"lists", "fetch"}
    /\ refresh' = [refresh EXCEPT ![c].pc = "failed"]
    /\ UNCHANGED <<cacheFile, started, mergeVars, reconVars, regVars>>

\* setDeltaCache: one adapter.write of the whole collection.
SetDeltaCache(c) ==
    /\ refresh[c].pc = "save"
    /\ WriteFile(c, Persisted(refresh[c].cachedTasksDelta), [refresh[c] EXCEPT !.pc = "done"])
    /\ UNCHANGED <<started, mergeVars, reconVars, regVars>>

\* The process stops at an await point: every call in flight is lost, the
\* file stays as it is.
Crash ==
    /\ \E c \in Calls : Active(c)
    /\ refresh' = [c \in Calls |-> IF Active(c) THEN IdleCall ELSE refresh[c]]
    /\ UNCHANGED <<cacheFile, started, mergeVars, reconVars, regVars>>

NextDelta ==
    \/ \E c \in OneCall, reset \in BOOLEAN, skip \in BOOLEAN : StartRefresh(c, reset, skip)
    \/ \E c \in OneCall : ResetDeltaCache(c)
    \/ \E c \in OneCall : GetDeltaCache(c)
    \/ \E c \in OneCall : GetLists(c)
    \/ \E c \in OneCall : FetchPage(c)
    \/ \E c \in OneCall : GatewayRejects(c)
    \/ \E c \in OneCall : SetDeltaCache(c)
    \/ Crash

SpecDelta == InitDelta /\ [][NextDelta]_vars

----------------------------------------------------------------------------
(* Driver of mergeCollections: the inputs are drawn in InitMerge.          *)

InitMerge ==
    /\ col1 \in SeqsUpTo(MergeTasks, MaxLen)
    /\ col2 \in SeqsUpTo(MergeTasks, MaxLen)
    /\ merged = <<>>
    /\ remerged = <<>>
    /\ mpc = "input"
    /\ col3 = <<>> /\ assocL = <<>> /\ assocR = <<>>
    /\ callArgs = <<>> /\ callResult = NoResult
    /\ cacheFile = NoFile
    /\ refresh = [c \in Calls |-> IdleCall]
    /\ started = 0
    /\ settings = IdleSettings
    /\ doc = <<>>
    /\ mtime = 0
    /\ gateway = IdleGateway
    /\ clock = 0
    /\ calls = <<>>
    /\ cmd = IdleCmd
    /\ savedSettings = IdleSettings
    /\ saving = <<>>
    /\ held = <<>>
    /\ adders = [a \in Adders |-> IdleAdder]
    /\ second = IdleCmd
    /\ actionQueue = IdleQueue

Merge ==
    /\ mpc = "input"
    /\ merged' = mergeCollections(col1, col2)
    /\ mpc' = "merged"
    /\ UNCHANGED <<col1, col2, remerged, col3, assocL, assocR, callArgs, callResult, deltaVars, reconVars, regVars>>

MergeAgain ==
    /\ mpc = "merged"
    /\ remerged' = mergeCollections(merged, col2)
    /\ mpc' = "remerged"
    /\ UNCHANGED <<col1, col2, merged, col3, assocL, assocR, callArgs, callResult, deltaVars, reconVars, regVars>>

NextMerge == Merge \/ MergeAgain

SpecMerge == InitMerge /\ [][NextMerge]_vars

\* Snapshots for the triple merge: records of one id with equal and with
\* different timestamps and contents.
AssocTasks ==
    { Snapshot(1, 1, <<"A">>, "notStarted", "normal", NoDate, FALSE),
      Snapshot(1, 1, <<"B">>, "notStarted", "normal", NoDate, FALSE),
      Snapshot(1, 2, <<"A">>, "notStarted", "normal", NoDate, FALSE),
      Snapshot(1, 2, <<"B">>, "notStarted", "normal", NoDate, FALSE) }

InitAssoc ==
    /\ col1 \in SeqsUpTo(AssocTasks, MaxLen)
    /\ col2 \in SeqsUpTo(AssocTasks, MaxLen)
    /\ col3 \in SeqsUpTo(AssocTasks, MaxLen)
    /\ assocL = <<>> /\ assocR = <<>>
    /\ callArgs = <<>> /\ callResult = NoResult
    /\ merged = <<>>
    /\ remerged = <<>>
    /\ mpc = "input"
    /\ cacheFile = NoFile
    /\ refresh = [c \in Calls |-> IdleCall]
    /\ started = 0
    /\ settings = IdleSettings
    /\ doc = <<>>
    /\ mtime = 0
    /\ gateway = IdleGateway
    /\ clock = 0
    /\ calls = <<>>
    /\ cmd = IdleCmd
    /\ savedSettings = IdleSettings
    /\ saving = <<>>
    /\ held = <<>>
    /\ adders = [a \in Adders |-> IdleAdder]
    /\ second = IdleCmd
    /\ actionQueue = IdleQueue

\* mergeCollections(mergeCollections(a, b), c) and
\* mergeCollections(a, mergeCollections(b, c)).
MergeBothWays ==
    /\ mpc = "input"
    /\ assocL' = mergeCollections(mergeCollections(col1, col2), col3)
    /\ assocR' = mergeCollections(col1, mergeCollections(col2, col3))
    /\ mpc' = "grouped"
    /\ UNCHANGED <<col1, col2, col3, merged, remerged, callArgs, callResult, deltaVars, reconVars, regVars>>

NextAssoc == MergeBothWays

SpecAssoc == InitAssoc /\ [][NextAssoc]_vars

----------------------------------------------------------------------------
(* The reconciler: MsTodoActions.postTask and MsTodoActions.syncVault on   *)
(* one document, one command per behaviour, started in any of the states   *)
(* drawn in Init.                                                          *)

MaxLines == 2
MaxTime == 3
DocTime == 2

TrackedAnchor == Anchor(Prefix, <<"a", "1", "b", "2">>, 1)
OrphanAnchor == Anchor(Prefix, <<"c", "3", "d", "4">>, 2)
UserAnchor == <<"n", "o", "t", "e">>

\* "- [ ] A", "- [ ] A +Home", "* [ ] A (created earlier) ^MSTDa1b200001"
\* and "- [ ] A ^note".
DocLines ==
    { Line("-", " ", <<"A">>, "", NoDate, "", NoAnchor),
      Line("-", " ", <<"A">>, "Home", NoDate, "", NoAnchor),
      Line("*", " ", <<"A">>, "", NoDate, "earlier", TrackedAnchor),
      Line("-", " ", <<"A">>, "", NoDate, "", UserAnchor) }

\* A remote task no block of the document refers to.
OtherTask == Snapshot(2, 1, <<"Z">>, "notStarted", "normal", NoDate, TRUE)

\* The remote states of the task behind TrackedAnchor.
RemoteTasks ==
    { Snapshot(1, ts, title, "notStarted", "normal", NoDate, linked) :
        ts \in 1..MaxTime, title \in {<<"A">>, <<"B">>}, linked \in BOOLEAN }

\* Remote task 1 as a snapshot without lastModifiedDateTime.
UndatedTask == Snapshot(1, NoTime, <<"B">>, "notStarted", "normal", NoDate, FALSE)

Init ==
    /\ settings \in
         { [taskIdLookup |-> << [blockId |-> TrackedAnchor, taskId |-> 1],
                                [blockId |-> OrphanAnchor, taskId |-> 2] >>,
            taskIdIndex |-> 2,
            todo_CreateToDoListIfMissing |-> flag] : flag \in BOOLEAN }
    /\ doc \in SeqsUpTo(DocLines, MaxLines) \ {<<>>}
    /\ mtime = DocTime
    /\ gateway \in
         { [lists |-> GatewayLists, tasks |-> tasks, nextTaskId |-> 3] :
             tasks \in { << [listId |-> 1, task |-> OtherTask] >> } \cup
                       { << [listId |-> 1, task |-> OtherTask], [listId |-> 1, task |-> t] >> :
                           t \in { r \in RemoteTasks : r.linked => r.title = <<"B">> }
                                   \cup {UndatedTask} } }
    /\ cacheFile \in
         { NoFile,
           FileOf(<< TasksDeltaCollection(<<OtherTask>>, DeltaLink({OtherTask}), 1, "Tasks"),
                     TasksDeltaCollection(<<>>, DeltaLink({}), 2, "Work") >>) }
    /\ clock = MaxTime + 1
    /\ calls = <<>>
    /\ cmd = IdleCmd
    /\ savedSettings = settings
    /\ saving = <<>>
    /\ held = <<>>
    /\ adders = [a \in Adders |-> IdleAdder]
    /\ second = IdleCmd
    /\ actionQueue = IdleQueue
    /\ refresh = [c \in Calls |-> IdleCall]
    /\ started = 0
    /\ col1 = <<>> /\ col2 = <<>> /\ merged = <<>> /\ remerged = <<>> /\ mpc = "off"
    /\ col3 = <<>> /\ assocL = <<>> /\ assocR = <<>>
    /\ callArgs = <<>> /\ callResult = NoResult

\* What a command remembers of a line or registry entry it has handled.
Item(line, blockId, text, todo, cachedTask, listId, returned, minted, result) ==
    [line |-> line, blockId |-> blockId, text |-> text, todo |-> todo,
     cachedTask |-> cachedTask, listId |-> listId, returned |-> returned,
     minted |-> minted, result |-> result]

\* postTask lines 472-495 with the selection taken from the editor
\* (getCurrentLinesFromEditor): lines from..to.
PostTaskStart(replace, from, to) ==
    /\ cmd.pc = "idle"
    /\ from \in 1..Len(doc) /\ to \in from..Len(doc)
    /\ LET cachedTasksDelta == getTaskDelta(cacheFile, gateway, FALSE)
       IN  /\ cacheFile' = Persisted(cachedTasksDelta)
           /\ cmd' = [IdleCmd EXCEPT !.op = "postTask", !.pc = "lines",
                                     !.replace = replace, !.lines = from..to,
                                     !.source = doc, !.mtime = mtime,
                                     !.pending = from..to, !.modifiedPage = doc,
                                     !.cachedTasksDelta = cachedTasksDelta]
    /\ UNCHANGED <<settings, doc, mtime, gateway, clock, calls, refresh, started, mergeVars, regVars>>

\* The callback of split.map has returned for line i.
Returned(i, item) ==
    [cmd EXCEPT !.pending = @ \ {i},
                !.modifiedPage[i] = item.result,
                !.items = Append(@, item),
                !.pc = IF cmd.pending \ {i} # {} THEN "lines"
                       ELSE IF cmd.failed THEN "failed" ELSE "write"]

\* userNotice.showMessage for line i.
Notice(i, message) == [line |-> i, message |-> message]

\* postTask lines 510-547: the line has a block link and an id.
UpdateTracked(i, line, todo) ==
    LET cachedTasksDelta == getTaskDelta(cacheFile, gateway, FALSE)
        found == FindTask(cachedTasksDelta, todo.id)
        push == needsUpdate(todo, found.task)
        linked == GatewayCall(IF found.task.linked THEN "updateLinkedResource"
                                                   ELSE "createLinkedResource",
                              i, todo.blockLink, found.list, todo.id, NoBody)
        update == GatewayCall("updateTaskFromToDo", i, todo.blockLink, found.list,
                              todo.id, getTodoTask(todo))
        result == IF cmd.replace THEN getMarkdownTask(todo) ELSE line
    IN  /\ cacheFile' = Persisted(cachedTasksDelta)
        /\ calls' = IF push THEN calls \o <<linked, update>> ELSE calls
        /\ gateway' = IF push
                      THEN updateTaskFromToDo(linkResource(gateway, todo.id), todo.id,
                                              getTodoTask(todo), clock)
                      ELSE gateway
        /\ clock' = IF push THEN clock + 1 ELSE clock
        /\ cmd' = Returned(i, Item(i, todo.blockLink, line, todo, found.task, found.list,
                                   NoId, NoAnchor, result))
        /\ UNCHANGED <<settings, doc, mtime, regVars>>

\* postTask lines 548-581: every other selected line.
\* listReturned: createTaskList resolved to a list rather than to nothing.
CreateNew(i, line, todo, suffix, listReturned) ==
    LET byName == ListIdByName(cmd.cachedTasksDelta, todo.listName)
        makeList == byName = NoId /\ settings.todo_CreateToDoListIfMissing
        abort == byName = NoId /\ (~settings.todo_CreateToDoListIfMissing \/ ~listReturned)
        withList == IF makeList THEN createTaskList(gateway, todo.listName) ELSE gateway
        listId == IF makeList THEN withList.lists[Len(withList.lists)].id ELSE byName
        returnedId == withList.nextTaskId
        index == NewIndex(settings.taskIdIndex, suffix)
        cached == [todo EXCEPT !.blockLink = index, !.id = returnedId]
        listCall == GatewayCall("createTaskList", i, todo.blockLink, NoId, NoId, NoBody)
        create == GatewayCall("createTaskFromToDo", i, todo.blockLink, listId, NoId,
                              getTodoTask(todo))
    IN  IF abort
        THEN /\ cmd' = [Returned(i, Item(i, todo.blockLink, line, todo, NoTask, NoId,
                                         NoId, NoAnchor, BlankLine))
                          EXCEPT !.notices = Append(@, Notice(i, IF makeList
                                                               THEN "Error_UnableToCreateList"
                                                               ELSE "Error_UnableToDetermineListId"))]
             /\ calls' = IF makeList THEN Append(calls, listCall) ELSE calls
             /\ gateway' = withList
             /\ UNCHANGED <<cacheFile, clock, settings, doc, mtime, regVars>>
        ELSE /\ calls' = (IF makeList THEN Append(calls, listCall) ELSE calls) \o <<create>>
             /\ gateway' = createTaskFromToDo(withList, listId, getTodoTask(todo), clock)
             /\ clock' = clock + 1
             /\ settings' = cacheTaskId(settings, returnedId, suffix)
             /\ saving' = saveSettings(saving, settings')
             /\ held' = Append(held, Handed(index, returnedId, suffix))
             /\ cmd' = Returned(i, Item(i, todo.blockLink, line, todo, NoTask, listId,
                                        returnedId, index,
                                        IF cmd.replace THEN getMarkdownTask(cached) ELSE line))
             /\ UNCHANGED <<cacheFile, doc, mtime, savedSettings, adders, second, actionQueue, actionQueue>>

\* postTask lines 497-589 for one selected line; suffix is the draw of
\* Math.random in cacheTaskId.
PostTaskLine(i, suffix, listReturned) ==
    /\ cmd.op = "postTask" /\ cmd.pc = "lines"
    /\ i \in cmd.pending
    /\ LET line == cmd.source[i]
           todo == ObsidianTodoTask(settings.taskIdLookup, line)
       IN  IF hasBlockLink(todo) /\ hasId(todo)
           THEN UpdateTracked(i, line, todo)
           ELSE CreateNew(i, line, todo, suffix, listReturned)
    /\ UNCHANGED <<refresh, started, mergeVars>>

\* postTask line 593: vault.modify with the joined page.
\* postTask for one selected line whose first gateway write rejects: the
\* callback rejects, so Promise.all rejects and postTask ends at line 496
\* once it is resumed; the callbacks of the other lines run on.
PostTaskLineRejects(i) ==
    /\ cmd.op = "postTask" /\ cmd.pc = "lines"
    /\ i \in cmd.pending
    /\ LET line == cmd.source[i]
           todo == ObsidianTodoTask(settings.taskIdLookup, line)
           tracked == hasBlockLink(todo) /\ hasId(todo)
           cachedTasksDelta == getTaskDelta(cacheFile, gateway, FALSE)
           found == FindTask(cachedTasksDelta, todo.id)
           byName == ListIdByName(cmd.cachedTasksDelta, todo.listName)
       IN  /\ IF tracked THEN needsUpdate(todo, found.task)
                         ELSE byName # NoId \/ settings.todo_CreateToDoListIfMissing
           /\ cacheFile' = IF tracked THEN Persisted(cachedTasksDelta) ELSE cacheFile
           /\ cmd' = [cmd EXCEPT !.pending = @ \ {i},
                                 !.failed = TRUE,
                                 !.pc = IF cmd.pending \ {i} = {} THEN "failed" ELSE "lines"]
    /\ UNCHANGED <<settings, doc, mtime, gateway, clock, calls, refresh, started,
                   mergeVars, regVars>>

PostTaskWrite ==
    /\ cmd.op = "postTask" /\ cmd.pc = "write"
    /\ doc' = cmd.modifiedPage
    /\ mtime' = clock
    /\ clock' = clock + 1
    /\ cmd' = [cmd EXCEPT !.pc = "done"]
    /\ UNCHANGED <<settings, gateway, calls, cacheFile, refresh, started, mergeVars, regVars>>

\* syncVault lines 48-123: the local index and the refresh of the cache.
SyncVaultStart ==
    /\ cmd.pc = "idle"
    /\ LET cachedTasksDelta == getTaskDelta(cacheFile, gateway, FALSE)
       IN  /\ cacheFile' = Persisted(cachedTasksDelta)
           /\ cmd' = [IdleCmd EXCEPT !.op = "syncVault",
                                     !.pc = IF Len(settings.taskIdLookup) = 0
                                            THEN "done" ELSE "entries",
                                     !.source = doc, !.mtime = mtime, !.entry = 1,
                                     !.cachedTasksDelta = cachedTasksDelta]
    /\ UNCHANGED <<settings, doc, mtime, gateway, clock, calls, refresh, started, mergeVars, regVars>>

\* syncVault lines 127-220 for the next registry entry.
SyncVaultEntry ==
    /\ cmd.op = "syncVault" /\ cmd.pc = "entries"
    /\ LET blockId == settings.taskIdLookup[cmd.entry].blockId
           taskId == getTaskIdFromBlockId(settings.taskIdLookup, blockId)
           found == FindTask(getTaskDelta(cacheFile, gateway, TRUE), taskId)
           localTask == LocalTask(cmd.source, cmd.mtime, toLowerCase(blockId))
           skip == \/ found.task = NoTask
                   \/ ~localTask.found
                   \/ found.task.lastModifiedDateTime = NoTime
                   \/ localTask.taskLine = BlankLine
           internalTask == [ObsidianTodoTask(settings.taskIdLookup, localTask.taskLine)
                               EXCEPT !.id = taskId]
           updatedTask == getMarkdownTask(updateFromTodoTask(internalTask, found.task))
           push == ~skip /\ ~equals(internalTask, found.task)
                         /\ localTaskNewer(found.task, localTask.mtime)
           pull == ~skip /\ ~equals(internalTask, found.task)
                         /\ ~localTaskNewer(found.task, localTask.mtime)
           item == Item(0, blockId, localTask.taskLine, internalTask, found.task, found.list,
                        NoId, NoAnchor,
                        IF pull THEN updatedTask ELSE localTask.taskLine)
       IN  /\ calls' = IF push
                       THEN Append(calls, GatewayCall("updateTaskFromToDo", 0, blockId,
                                                      found.list, taskId,
                                                      getTodoTask(internalTask)))
                       ELSE calls
           /\ gateway' = IF push
                         THEN updateTaskFromToDo(gateway, taskId, getTodoTask(internalTask), clock)
                         ELSE gateway
           /\ doc' = IF pull THEN ReplaceFirst(doc, localTask.taskLine, updatedTask) ELSE doc
           /\ mtime' = IF pull THEN clock ELSE mtime
           /\ clock' = IF push \/ pull THEN clock + 1 ELSE clock
           /\ cmd' = [cmd EXCEPT !.entry = @ + 1,
                                 !.items = Append(@, item),
                                 !.pc = IF cmd.entry = Len(settings.taskIdLookup)
                                        THEN "done" ELSE "entries"]
    /\ UNCHANGED <<settings, cacheFile, refresh, started, mergeVars, regVars>>

Next ==
    \/ \E replace \in BOOLEAN, from, to \in 1..MaxLines : PostTaskStart(replace, from, to)
    \/ \E i \in 1..MaxLines, suffix \in Suffixes, listReturned \in BOOLEAN :
          PostTaskLine(i, suffix, listReturned)
    \/ PostTaskWrite
    \/ SyncVaultStart
    \/ SyncVaultEntry

Spec == Init /\ [][Next]_vars

----------------------------------------------------------------------------
(* The registry on its own: cacheTaskId called again and again on a fresh  *)
(* installation (taskIdIndex 0, empty taskIdLookup), and the writes of     *)
(* data.json those calls start.                                            *)

\* Calls of cacheTaskId followed.
MaxGenerate == 3

\* Draws of Math.random().toString(20).slice(2, 6): no character at all
\* (Math.random gave 0), fewer than four, digits only, letters and digits.
GenSuffixes == {<<>>, <<"0">>, <<"0", "0", "0", "1">>, <<"a", "1", "b", "2">>}
GenIds == {1, 2}

InitRegistry ==
    /\ col1 = <<>> /\ col2 = <<>> /\ merged = <<>> /\ remerged = <<>> /\ mpc = "idle"
    /\ col3 = <<>> /\ assocL = <<>> /\ assocR = <<>>
    /\ callArgs = <<>> /\ callResult = NoResult
    /\ cacheFile = NoFile
    /\ refresh = [c \in Calls |-> IdleCall]
    /\ started = 0
    /\ settings = IdleSettings
    /\ doc = <<>>
    /\ mtime = 0
    /\ gateway = IdleGateway
    /\ clock = 0
    /\ calls = <<>>
    /\ cmd = IdleCmd
    /\ savedSettings = IdleSettings
    /\ saving = <<>>
    /\ held = <<>>
    /\ adders = [a \in Adders |-> IdleAdder]
    /\ second = IdleCmd
    /\ actionQueue = IdleQueue

\* One call of cacheTaskId(id), up to its return.
Generate(id, suffix) ==
    /\ settings.taskIdIndex < MaxGenerate
    /\ settings' = cacheTaskId(settings, id, suffix)
    /\ saving' = saveSettings(saving, settings')
    /\ held' = Append(held, Handed(NewIndex(settings.taskIdIndex, suffix), id, suffix))
    /\ UNCHANGED <<savedSettings, adders, second, actionQueue, doc, mtime, gateway, clock, calls, cmd, mergeVars, deltaVars>>

\* The oldest write of data.json in flight completes.
SaveCompletes ==
    /\ saving # <<>>
    /\ savedSettings' = Head(saving)
    /\ saving' = Tail(saving)
    /\ UNCHANGED <<held, adders, second, actionQueue, mergeVars, deltaVars, reconVars>>

NextRegistry ==
    \/ \E id \in GenIds, suffix \in GenSuffixes : Generate(id, suffix)
    \/ SaveCompletes

SpecRegistry == InitRegistry /\ [][NextRegistry]_vars

----------------------------------------------------------------------------
(* The vault commands next to each other: postTask, syncVault, getTask,    *)
(* addMissingTasksToVault (two runs may overlap), cleanupCachedTaskIds and *)
(* a refresh of the delta cache, one command per behaviour, with the       *)
(* writes of data.json they start.                                         *)

PlainLine == Line("-", " ", <<"A">>, "", NoDate, "", NoAnchor)
TrackedLine == Line("*", " ", <<"A">>, "", NoDate, "earlier", TrackedAnchor)
\* A block a user named with the text of OrphanAnchor and one more
\* character.
LongerAnchor == OrphanAnchor \o <<"9">>
LongerLine == Line("-", " ", <<"A">>, "", NoDate, "", LongerAnchor)
VaultDocs == { <<PlainLine>>, <<PlainLine, TrackedLine>>, <<TrackedLine, LongerLine>> }

\* Remote tasks 1 (list Tasks), 2 (list Work) and 3 (list Tasks).
VaultTasks(title, status) ==
    << [listId |-> 1, task |-> Snapshot(1, 1, title, "notStarted", "normal", NoDate, TRUE)],
       [listId |-> 2, task |-> Snapshot(2, 1, <<"Z">>, status, "normal", NoDate, FALSE)],
       [listId |-> 1, task |-> Snapshot(3, 1, <<"Y">>, "inProgress", "normal", NoDate, FALSE)] >>

InitVault ==
    /\ settings \in
         { [taskIdLookup |-> lookup, taskIdIndex |-> 2, todo_CreateToDoListIfMissing |-> TRUE] :
             lookup \in { << [blockId |-> TrackedAnchor, taskId |-> 1] >>,
                          << [blockId |-> TrackedAnchor, taskId |-> 1],
                             [blockId |-> OrphanAnchor, taskId |-> 2] >> } }
    /\ doc \in VaultDocs
    /\ mtime = DocTime
    /\ gateway \in
         { [lists |-> GatewayLists, tasks |-> VaultTasks(title, status), nextTaskId |-> 4] :
             title \in {<<"A">>, <<"B">>}, status \in {"notStarted", "completed"} }
    /\ cacheFile \in
         { NoFile,
           FileOf(<< TasksDeltaCollection(<<OtherTask>>, DeltaLink({OtherTask}), 1, "Tasks"),
                     TasksDeltaCollection(<<>>, DeltaLink({}), 2, "Work") >>) }
    /\ clock = MaxTime + 1
    /\ calls = <<>>
    /\ cmd = IdleCmd
    /\ savedSettings = settings
    /\ saving = <<>>
    /\ held = <<>>
    /\ adders = [a \in Adders |-> IdleAdder]
    /\ second = IdleCmd
    /\ actionQueue = IdleQueue
    /\ refresh = [c \in Calls |-> IdleCall]
    /\ started = 0
    /\ col1 = <<>> /\ col2 = <<>> /\ merged = <<>> /\ remerged = <<>> /\ mpc = "off"
    /\ col3 = <<>> /\ assocL = <<>> /\ assocR = <<>>
    /\ callArgs = <<>> /\ callResult = NoResult

\* The rows the two nested loops of addMissingTasksToVault visit, in order.
RECURSIVE TasksInOrder(_)
TasksInOrder(allLists) ==
    IF allLists = <<>> THEN <<>>
    ELSE LET list == Head(allLists)
         IN  [k \in 1..Len(list.allTasks) |->
                [listId |-> list.listId, listName |-> list.name, task |-> list.allTasks[k]]]
             \o TasksInOrder(Tail(allLists))

\* addMissingTasksToVault lines 428-451 from row k on; draws[k] is what
\* Math.random gives if row k reaches cacheTaskId.  Nothing is awaited in
\* the loop.
RECURSIVE addMissingLoop(_, _, _, _)
addMissingLoop(rows, k, draws, acc) ==
    IF k > Len(rows) THEN acc
    ELSE LET task == rows[k].task
             blockId == IF task.id # NoId
                        THEN hasTaskId(acc.settings.taskIdLookup, task.id) ELSE FALSE
         IN  IF task.status = "completed" \/ blockId
             THEN addMissingLoop(rows, k + 1, draws, acc)
             ELSE LET index == NewIndex(acc.settings.taskIdIndex, draws[k])
                      empty == ObsidianTodoTask(acc.settings.taskIdLookup, BlankLine)
                      newTask == [updateFromTodoTask([empty EXCEPT !.listName = rows[k].listName],
                                                     task)
                                    EXCEPT !.blockLink = index, !.id = task.id]
                      after == cacheTaskId(acc.settings, task.id, draws[k])
                  IN  addMissingLoop(rows, k + 1, draws,
                        [settings |-> after,
                         saving |-> saveSettings(acc.saving, after),
                         held |-> Append(acc.held, Handed(index, task.id, draws[k])),
                         minted |-> Append(acc.minted, [taskId |-> task.id, blockLink |-> index]),
                         addedTasks |-> Append(acc.addedTasks, getMarkdownTask(newTask))])

\* addMissingTasksToVault lines 408-416: up to the await of getTaskDelta.
AddMissingStart(a, editor) ==
    /\ cmd.pc = "idle" \/ cmd.op = "addMissing"
    /\ adders[a].pc = "idle"
    /\ LET cachedTasksDelta == getTaskDelta(cacheFile, gateway, FALSE)
       IN  /\ cacheFile' = Persisted(cachedTasksDelta)
           /\ adders' = [adders EXCEPT ![a] = [IdleAdder EXCEPT !.pc = "loop",
                                                               !.editor = editor,
                                                               !.cachedTasksDelta = cachedTasksDelta]]
    /\ cmd' = [IdleCmd EXCEPT !.op = "addMissing", !.pc = "adders"]
    /\ UNCHANGED <<settings, savedSettings, saving, held, doc, mtime, gateway, clock, calls,
                   refresh, started, mergeVars, second, actionQueue>>

\* addMissingTasksToVault lines 426-457: the loop and the insertion at the
\* cursor, here the end of the document.
AddMissingLoop(a) ==
    /\ adders[a].pc = "loop"
    /\ LET rows == TasksInOrder(adders[a].cachedTasksDelta)
       IN  \E draws \in [1..Len(rows) -> Suffixes] :
             LET acc == addMissingLoop(rows, 1, draws,
                                       [settings |-> settings, saving |-> saving, held |-> held,
                                        minted |-> <<>>, addedTasks |-> <<>>])
             IN  /\ settings' = acc.settings
                 /\ saving' = acc.saving
                 /\ held' = acc.held
                 /\ doc' = IF adders[a].editor THEN doc \o acc.addedTasks ELSE doc
                 /\ adders' = [adders EXCEPT ![a].pc = "done",
                                             ![a].before = settings.taskIdLookup,
                                             ![a].minted = acc.minted,
                                             ![a].addedTasks = acc.addedTasks,
                                             ![a].overlapped =
                                                 \E b \in Adders \ {a} : adders[b].pc = "loop"]
    /\ UNCHANGED <<savedSettings, cmd, cacheFile, mtime, gateway, clock, calls,
                   refresh, started, mergeVars, second, actionQueue>>

\* getTask lines 596-617: up to the await of getTaskDelta.
GetTaskStart(from, to) ==
    /\ cmd.pc = "idle"
    /\ from \in 1..Len(doc) /\ to \in from..Len(doc)
    /\ LET cachedTasksDelta == getTaskDelta(cacheFile, gateway, FALSE)
       IN  /\ cacheFile' = Persisted(cachedTasksDelta)
           /\ cmd' = [IdleCmd EXCEPT !.op = "getTask", !.pc = "map",
                                     !.lines = from..to, !.source = doc, !.mtime = mtime,
                                     !.cachedTasksDelta = cachedTasksDelta]
    /\ UNCHANGED <<settings, doc, mtime, gateway, clock, calls, refresh, started, mergeVars, regVars>>

\* getTask lines 619-649.  cachedTasksDelta.allTasks is a property of
\* ListsDeltaCollection: present, it is read as every task of every list;
\* absent, the read throws on the first tracked line and nothing is
\* written.
GetTaskWrite(allTasksPresent) ==
    /\ cmd.op = "getTask" /\ cmd.pc = "map"
    /\ LET todoOf(i) == ObsidianTodoTask(settings.taskIdLookup, cmd.source[i])
           tracked(i) == i \in cmd.lines /\ hasBlockLink(todoOf(i)) /\ hasId(todoOf(i))
           throws == ~allTasksPresent /\ \E i \in 1..Len(cmd.source) : tracked(i)
           returnedTask(i) == FindTask(cmd.cachedTasksDelta, todoOf(i).id).task
           modifiedPage ==
               [i \in 1..Len(cmd.source) |->
                   IF tracked(i) /\ returnedTask(i) # NoTask /\ ~equals(todoOf(i), returnedTask(i))
                   THEN getMarkdownTask(updateFromTodoTask(todoOf(i), returnedTask(i)))
                   ELSE cmd.source[i]]
       IN  IF throws
           THEN /\ cmd' = [cmd EXCEPT !.pc = "failed"]
                /\ UNCHANGED <<doc, mtime, clock>>
           ELSE /\ doc' = modifiedPage
                /\ mtime' = clock
                /\ clock' = clock + 1
                /\ cmd' = [cmd EXCEPT !.pc = "done", !.modifiedPage = modifiedPage]
    /\ UNCHANGED <<settings, gateway, calls, cacheFile, refresh, started, mergeVars, regVars>>

\* The key populateBlockCache gives a block: the page's cache key, a dash
\* and the block id as the metadata cache keeps it, in lower case.
BlockKey(blockId) == <<"h", "-">> \o toLowerCase(blockId)

\* String.includes.
includes(text, part) ==
    \E k \in 0..(Len(text) - Len(part)) : SubSeq(text, k + 1, k + Len(part)) = part

\* delete taskIdLookup[blockId].
DeleteEntry(taskIdLookup, blockId) ==
    SelectSeq(taskIdLookup, LAMBDA e : e.blockId # blockId)

\* cleanupCachedTaskIds lines 288-294: the block cache and the keys the
\* for-in loop will visit.
CleanupStart ==
    /\ cmd.pc = "idle"
    /\ cmd' = [IdleCmd EXCEPT !.op = "cleanup",
                              !.pc = IF Len(settings.taskIdLookup) = 0 THEN "done" ELSE "entries",
                              !.source = doc, !.entry = 1,
                              !.keys = [i \in 1..Len(settings.taskIdLookup) |->
                                          settings.taskIdLookup[i].blockId]]
    /\ UNCHANGED <<settings, doc, mtime, gateway, clock, calls, cacheFile, refresh, started,
                   mergeVars, regVars>>

\* cleanupCachedTaskIds lines 295-313 for the next key, up to the await of
\* saveSettings when the key is deleted.
CleanupEntry ==
    /\ cmd.op = "cleanup" /\ cmd.pc = "entries"
    /\ LET blockId == cmd.keys[cmd.entry]
           found == \E i \in 1..Len(cmd.source) :
                       /\ cmd.source[i].anchor # NoAnchor
                       /\ includes(BlockKey(cmd.source[i].anchor), toLowerCase(blockId))
           next == IF cmd.entry = Len(cmd.keys) THEN "done" ELSE "entries"
       IN  IF found
           THEN /\ cmd' = [cmd EXCEPT !.entry = @ + 1, !.pc = next]
                /\ UNCHANGED <<settings, saving>>
           ELSE /\ settings' = [settings EXCEPT !.taskIdLookup = DeleteEntry(@, blockId)]
                /\ saving' = saveSettings(saving, settings')
                /\ cmd' = [cmd EXCEPT !.entry = @ + 1, !.pc = "saving"]
    /\ UNCHANGED <<savedSettings, held, adders, second, actionQueue, doc, mtime, gateway, clock, calls, cacheFile,
                   refresh, started, mergeVars>>

\* The write awaited by cleanupCachedTaskIds has completed.
CleanupResume ==
    /\ cmd.op = "cleanup" /\ cmd.pc = "saving"
    /\ saving = <<>>
    /\ cmd' = [cmd EXCEPT !.pc = IF cmd.entry > Len(cmd.keys) THEN "done" ELSE "entries"]
    /\ UNCHANGED <<settings, doc, mtime, gateway, clock, calls, cacheFile, refresh, started,
                   mergeVars, regVars>>

\* A refresh of the delta cache on its own: getTaskDelta(), or
\* resetTasksCache, which removes the file first.
RefreshCache(reset) ==
    /\ cmd.pc = "idle"
    /\ cacheFile' = Persisted(getTaskDelta(IF reset THEN NoFile ELSE cacheFile, gateway, FALSE))
    /\ cmd' = [IdleCmd EXCEPT !.op = "refresh", !.pc = "done"]
    /\ UNCHANGED <<settings, doc, mtime, gateway, clock, calls, refresh, started, mergeVars, regVars>>

NextVault ==
    \/ \E replace \in BOOLEAN, from, to \in 1..MaxLines : PostTaskStart(replace, from, to)
    \/ \E i \in 1..MaxLines, suffix \in Suffixes, listReturned \in BOOLEAN :
          PostTaskLine(i, suffix, listReturned)
    \/ \E i \in 1..MaxLines : PostTaskLineRejects(i)
    \/ PostTaskWrite
    \/ SyncVaultStart
    \/ SyncVaultEntry
    \/ \E from, to \in 1..MaxLines : GetTaskStart(from, to)
    \/ \E allTasksPresent \in BOOLEAN : GetTaskWrite(allTasksPresent)
    \/ \E a \in Adders, editor \in BOOLEAN : AddMissingStart(a, editor)
    \/ \E a \in Adders : AddMissingLoop(a)
    \/ CleanupStart
    \/ CleanupEntry
    \/ CleanupResume
    \/ \E reset \in BOOLEAN : RefreshCache(reset)
    \/ SaveCompletes

SpecVault == InitVault /\ [][NextVault]_vars

----------------------------------------------------------------------------
(* The local index of syncVault on its own: the loop over the blocks of    *)
(* the vault that keeps one copy per block id.                             *)

\* Blocks enumerated by getAllVaultBlocks at most.
MaxBlocks == 3

\* The pages of the vault with their modification times, and the block
\* ids met on them.
Pages == << [pageHash |-> "p1", mtime |-> 1],
            [pageHash |-> "p2", mtime |-> 2],
            [pageHash |-> "p3", mtime |-> 3] >>
BlockIds == {toLowerCase(TrackedAnchor), toLowerCase(OrphanAnchor)}

\* An entry of blockCache with the text of its block.
VaultBlock(page, blockId) ==
    [pageHash |-> page.pageHash, mtime |-> page.mtime, blockId |-> blockId,
     taskLine |-> <<page.pageHash, blockId>>]

\* blockCache in the order for-in enumerates it: keys are pairwise
\* different.
BlockCaches ==
    { blocks \in SeqsUpTo({ VaultBlock(Pages[p], b) : p \in 1..Len(Pages), b \in BlockIds },
                          MaxBlocks) :
        \A i, j \in 1..Len(blocks) : i # j => blocks[i] # blocks[j] }

\* localTasks[blockId], or a record without mtime when the key is absent.
NoLocalTask == [pageHash |-> "", mtime |-> 0, blockId |-> NoAnchor, taskLine |-> <<>>]
LocalTaskOf(localTasks, blockId) ==
    IF \E i \in 1..Len(localTasks) : localTasks[i].blockId = blockId
    THEN localTasks[CHOOSE i \in 1..Len(localTasks) : localTasks[i].blockId = blockId]
    ELSE NoLocalTask

\* localTasks[blockId] = entry.
SetLocalTask(localTasks, entry) ==
    IF \E i \in 1..Len(localTasks) : localTasks[i].blockId = entry.blockId
    THEN [i \in 1..Len(localTasks) |->
            IF localTasks[i].blockId = entry.blockId THEN entry ELSE localTasks[i]]
    ELSE Append(localTasks, entry)

\* syncVault lines 63-107 from block k on: both branches of the test on
\* mtime store the block at hand.
RECURSIVE indexBlocks(_, _, _)
indexBlocks(blockCache, k, localTasks) ==
    IF k > Len(blockCache) THEN localTasks
    ELSE LET block == blockCache[k]
             known == LocalTaskOf(localTasks, block.blockId)
         IN  IF known # NoLocalTask /\ known.mtime < block.mtime
             THEN indexBlocks(blockCache, k + 1, SetLocalTask(localTasks, block))
             ELSE indexBlocks(blockCache, k + 1, SetLocalTask(localTasks, block))

InitIndex ==
    /\ callArgs \in BlockCaches
    /\ callResult = NoResult
    /\ col1 = <<>> /\ col2 = <<>> /\ merged = <<>> /\ remerged = <<>> /\ mpc = "off"
    /\ col3 = <<>>
    /\ assocL = <<>>
    /\ assocR = <<>>
    /\ cacheFile = NoFile
    /\ refresh = [c \in Calls |-> IdleCall]
    /\ started = 0
    /\ settings = IdleSettings
    /\ doc = <<>>
    /\ mtime = 0
    /\ gateway = IdleGateway
    /\ clock = 0
    /\ calls = <<>>
    /\ cmd = IdleCmd
    /\ savedSettings = IdleSettings
    /\ saving = <<>>
    /\ held = <<>>
    /\ adders = [a \in Adders |-> IdleAdder]
    /\ second = IdleCmd
    /\ actionQueue = IdleQueue

BuildLocalTasks ==
    /\ ~callResult.done
    /\ callResult' = Return(indexBlocks(callArgs, 1, <<>>))
    /\ UNCHANGED <<col1, col2, merged, remerged, mpc, col3, assocL, assocR, callArgs,
                   deltaVars, reconVars, regVars>>

NextIndex == BuildLocalTasks

SpecIndex == InitIndex /\ [][NextIndex]_vars

----------------------------------------------------------------------------
(* Formatting a task record and parsing the line again, on its own.        *)

\* Task records without body and checklist.
RoundTripTasks ==
    { [title |-> title, status |-> status, importance |-> importance, due |-> due,
       listName |-> DefaultList.listName, blockLink |-> NoAnchor, id |-> NoId] :
        title \in {<<"A">>, <<"A", "B">>, <<"C">>},
        status \in {"notStarted", "inProgress", "completed"},
        importance \in {"low", "normal", "high"},
        due \in {NoDate, "2025-01-02", "2025-03-04"} }

InitRoundTrip ==
    /\ callArgs \in RoundTripTasks
    /\ callResult = NoResult
    /\ col1 = <<>> /\ col2 = <<>> /\ merged = <<>> /\ remerged = <<>> /\ mpc = "off"
    /\ col3 = <<>>
    /\ assocL = <<>>
    /\ assocR = <<>>
    /\ cacheFile = NoFile
    /\ refresh = [c \in Calls |-> IdleCall]
    /\ started = 0
    /\ settings = IdleSettings
    /\ doc = <<>>
    /\ mtime = 0
    /\ gateway = IdleGateway
    /\ clock = 0
    /\ calls = <<>>
    /\ cmd = IdleCmd
    /\ savedSettings = IdleSettings
    /\ saving = <<>>
    /\ held = <<>>
    /\ adders = [a \in Adders |-> IdleAdder]
    /\ second = IdleCmd
    /\ actionQueue = IdleQueue

\* new ObsidianTodoTask(settingsManager, task.getMarkdownTask(true)).
FormatAndParse ==
    /\ ~callResult.done
    /\ callResult' = Return(ObsidianTodoTask(settings.taskIdLookup, getMarkdownTask(callArgs)))
    /\ UNCHANGED <<col1, col2, merged, remerged, mpc, col3, assocL, assocR, callArgs,
                   deltaVars, reconVars, regVars>>

NextRoundTrip == FormatAndParse

SpecRoundTrip == InitRoundTrip /\ [][NextRoundTrip]_vars

----------------------------------------------------------------------------
(* ObsidianTodoTask.equals on its own.                                     *)

DueValues ==
    { DateTimeTimeZone(dateTime, timeZone) :
        dateTime \in {<<"2020-01-01">>, <<"2020-01-02">>, <<"2020-01-01", "23:00">>},
        timeZone \in {"utc", "Asia/Tokyo"} }

\* Local records: the constructor leaves dueDateTime undefined or sets a
\* value (lines 204-209), and updateFromTodoTask only copies a value.
EqualsLocals ==
    { [title |-> title, status |-> status, importance |-> importance, dueDateTime |-> due] :
        title \in {<<"A">>, <<"B">>},
        status \in {"notStarted", "completed"},
        importance \in {"normal", "high"},
        due \in {Undefined} \cup DueValues }

\* TodoTask records: dueDateTime?: NullableOption<DateTimeTimeZone>.
EqualsRemotes ==
    { [title |-> title, status |-> status, importance |-> importance, dueDateTime |-> due] :
        title \in {<<"A">>, <<"B">>},
        status \in {"notStarted", "completed"},
        importance \in {"normal", "high"},
        due \in {Undefined, Null} \cup DueValues }

InitEquals ==
    /\ \E local \in EqualsLocals :
         \E remote \in EqualsRemotes \cup {getTodoTask(local)} :
            callArgs = [local |-> local, remote |-> remote]
    /\ callResult = NoResult
    /\ col1 = <<>> /\ col2 = <<>> /\ merged = <<>> /\ remerged = <<>> /\ mpc = "off"
    /\ col3 = <<>>
    /\ assocL = <<>>
    /\ assocR = <<>>
    /\ cacheFile = NoFile
    /\ refresh = [c \in Calls |-> IdleCall]
    /\ started = 0
    /\ settings = IdleSettings
    /\ doc = <<>>
    /\ mtime = 0
    /\ gateway = IdleGateway
    /\ clock = 0
    /\ calls = <<>>
    /\ cmd = IdleCmd
    /\ savedSettings = IdleSettings
    /\ saving = <<>>
    /\ held = <<>>
    /\ adders = [a \in Adders |-> IdleAdder]
    /\ second = IdleCmd
    /\ actionQueue = IdleQueue

\* local.equals(remote)
Equals ==
    /\ ~callResult.done
    /\ callResult' = Return(equals(callArgs.local, callArgs.remote))
    /\ UNCHANGED <<col1, col2, merged, remerged, mpc, col3, assocL, assocR, callArgs,
                   deltaVars, reconVars, regVars>>

NextEquals == Equals

SpecEquals == InitEquals /\ [][NextEquals]_vars

----------------------------------------------------------------------------
(* postTaskAndChildren: a task line and the lines under it.                *)

MaxEditorLines == 4

\* A line of the editor: the number of spaces it starts with, the text
\* after them, and what a replacement glued onto the end of the line.
Indented(indent, line) == [indent |-> indent, line |-> line, tail |-> <<>>]

TaskLine == Indented(0, Line("-", " ", <<"A">>, "", NoDate, "", NoAnchor))
TrackedTaskLine == Indented(0, Line("-", " ", <<"B">>, "", NoDate, "", TrackedAnchor))
ChildLine == Indented(2, Line("-", " ", <<"C">>, "", NoDate, "", NoAnchor))
NoteLine == Indented(2, Line("", "", <<"N">>, "", NoDate, "", NoAnchor))
EmptyLine == Indented(0, BlankLine)

EditorLines == {TaskLine, TrackedTaskLine, ChildLine, NoteLine, EmptyLine}

Editors == UNION { [1..n -> EditorLines] : n \in 1..MaxEditorLines }

\* line.length === 0
isEmpty(line) == line.indent = 0 /\ line.line = BlankLine /\ line.tail = <<>>

\* line.startsWith('  - [')
startsWithChild(line) == line.indent = 2 /\ line.line.bullet = "-" /\ line.line.box # ""

\* line.trim()
trim(line) == [line EXCEPT !.indent = 0]

\* Array.prototype.slice(begin, end) on positions counted from 0; a negative
\* end counts from the end of the array.
slice(array, begin, end) ==
    LET to == IF end < 0 THEN Len(array) + end
              ELSE IF end > Len(array) THEN Len(array) ELSE end
    IN  IF to <= begin THEN <<>> ELSE SubSeq(array, begin + 1, to)

\* lines.findIndex((line, index) => line.length === 0 && index > 0)
findIndex(lines) ==
    IF \E k \in 1..(Len(lines) - 1) : isEmpty(lines[k + 1])
    THEN CHOOSE k \in 1..(Len(lines) - 1) :
            /\ isEmpty(lines[k + 1])
            /\ \A j \in 1..(k - 1) : ~isEmpty(lines[j + 1])
    ELSE -1

\* The loop of lines 444-454: childTasks and body, each line trimmed.
childTasksOf(group) ==
    LET picked == SelectSeq(group, startsWithChild)
    IN  [k \in 1..Len(picked) |-> trim(picked[k])]
bodyOf(group) ==
    LET picked == SelectSeq(group, LAMBDA line : ~startsWithChild(line))
    IN  [k \in 1..Len(picked) |-> trim(picked[k])]

\* addChecklistItem: the display name is the text without its marker.
displayName(childTask) == childTask.line.title

\* getMarkdownTask(false) as lines: the task line, the body lines that are
\* not blank, indented by two spaces, the checklist items as unchecked
\* boxes, and the empty text after the last line break.
formattedBody(body) ==
    LET kept == SelectSeq(body, LAMBDA line : ~isEmpty(trim(line)))
    IN  [k \in 1..Len(kept) |-> [kept[k] EXCEPT !.indent = 2]]
formattedChecklist(checklistItems) ==
    [k \in 1..Len(checklistItems) |->
        Indented(2, Line("-", " ", checklistItems[k], "", NoDate, "", NoAnchor))]
getMarkdownTaskLines(todo, body, checklistItems) ==
    <<Indented(0, getMarkdownTask(todo))>> \o formattedBody(body)
        \o formattedChecklist(checklistItems) \o <<EmptyLine>>

\* editor.replaceRange(text, {line: from, ch: 0}, {line: to, ch: length of
\* line to}) with from <= to: the lines from..to give way to the text.
replaceRange(editor, text, from, to) ==
    SubSeq(editor, 1, from) \o text \o SubSeq(editor, to + 2, Len(editor))

\* The same call with to = from - 1, the end before the start. An editor
\* that orders the two positions replaces the line break between the two
\* lines: the first line of the text is glued to line to and the line from
\* follows the last line of the text.
replaceRangeSwapped(editor, text, from) ==
    SubSeq(editor, 1, from - 1)
        \o <<[editor[from] EXCEPT !.tail = <<text[1]>>]>>
        \o SubSeq(text, 2, Len(text) - 1)
        \o SubSeq(editor, from + 1, Len(editor))

NoScan ==
    [ran |-> FALSE, endLine |-> 0, group |-> <<>>, body |-> <<>>, childTasks |-> <<>>,
     start |-> 0, end |-> 0, replaced |-> "none"]

\* The cursor is on a task line of the document; the registry and the
\* service know the tracked task.
InitChildren ==
    /\ doc \in Editors
    /\ \E cursor \in 0..(MaxEditorLines - 1) :
         \E listId \in {NoId, DefaultList.listId} :
            /\ cursor < Len(doc)
            /\ doc[cursor + 1] \in {TaskLine, TrackedTaskLine}
            /\ callArgs = [cursor |-> cursor, listId |-> listId, before |-> doc]
    /\ callResult = NoResult
    /\ settings = [taskIdLookup |-> << [blockId |-> TrackedAnchor, taskId |-> 1] >>,
                   taskIdIndex |-> 1, todo_CreateToDoListIfMissing |-> FALSE]
    /\ savedSettings = settings
    /\ gateway = [lists |-> << [id |-> DefaultList.listId, displayName |-> DefaultList.listName] >>,
                  tasks |-> << [listId |-> DefaultList.listId,
                                task |-> Snapshot(1, 1, <<"B">>, "notStarted", "normal",
                                                  NoDate, FALSE)] >>,
                  nextTaskId |-> 2]
    /\ clock = 2
    /\ col1 = <<>> /\ col2 = <<>> /\ merged = <<>> /\ remerged = <<>> /\ mpc = "off"
    /\ col3 = <<>>
    /\ assocL = <<>>
    /\ assocR = <<>>
    /\ cacheFile = NoFile
    /\ refresh = [c \in Calls |-> IdleCall]
    /\ started = 0
    /\ mtime = 0
    /\ calls = <<>>
    /\ cmd = IdleCmd
    /\ saving = <<>>
    /\ held = <<>>
    /\ adders = [a \in Adders |-> IdleAdder]
    /\ second = IdleCmd
    /\ actionQueue = IdleQueue

\* postTaskAndChildren called without a list id: the notice and nothing
\* else.
PostTaskAndChildrenNoList ==
    /\ ~callResult.done
    /\ callArgs.listId = NoId
    /\ callResult' = Return(NoScan)
    /\ UNCHANGED <<col1, col2, merged, remerged, mpc, col3, assocL, assocR, callArgs,
                   deltaVars, reconVars, regVars>>

\* postTaskAndChildren(todoApi, listId, editor, fileName, plugin, push).
\* The service keeps neither body nor checklist: a task read back has
\* none, and the answer to an update carries the body that was sent.
\* ordered tells whether the editor orders the two positions of a range
\* whose end comes before its start; one that does not rejects the range,
\* and so does reading the line before the first line.
PostTaskAndChildren(push, suffix, ordered) ==
    /\ ~callResult.done
    /\ callArgs.listId # NoId
    /\ LET cursor == callArgs.cursor
           topLevelTask == doc[cursor + 1]
           lines == slice(doc, cursor, Len(doc))
           endLine == findIndex(lines)
           group == slice(lines, 1, endLine)
           body == bodyOf(group)
           childTasks == childTasksOf(group)
           checklistItems == [k \in 1..Len(childTasks) |-> displayName(childTasks[k])]
           todo == ObsidianTodoTask(settings.taskIdLookup, topLevelTask.line)
           tracked == hasBlockLink(todo) /\ hasId(todo)
           remote == FindTask(<<[allTasks |-> [k \in 1..Len(gateway.tasks) |-> gateway.tasks[k].task],
                                 listId |-> callArgs.listId]>>, todo.id).task
           index == NewIndex(settings.taskIdIndex, suffix)
           after == IF tracked
                    THEN IF push THEN todo ELSE [todo EXCEPT !.status = remote.status]
                    ELSE [todo EXCEPT !.blockLink = index, !.id = gateway.nextTaskId]
           bodyAfter == IF tracked /\ ~push THEN <<>> ELSE body
           checklistAfter == IF tracked THEN <<>> ELSE checklistItems
           text == getMarkdownTaskLines(after, bodyAfter, checklistAfter)
           start == cursor
           end == cursor + endLine
           replaced == IF end >= start THEN "range"
                       ELSE IF ordered /\ end >= 0 THEN "swapped"
                       ELSE "rejected"
       IN  /\ IF tracked
              THEN /\ gateway' = IF push
                                 THEN updateTaskFromToDo(gateway, todo.id, getTodoTask(todo), clock)
                                 ELSE gateway
                   /\ calls' = Append(calls,
                                      GatewayCall(IF push THEN "updateTaskFromToDo" ELSE "getTask",
                                                  cursor, todo.blockLink, callArgs.listId, todo.id,
                                                  IF push THEN getTodoTask(todo) ELSE NoBody))
                   /\ UNCHANGED <<settings, saving, held>>
              ELSE /\ gateway' = createTaskFromToDo(gateway, callArgs.listId, getTodoTask(todo), clock)
                   /\ calls' = Append(calls,
                                      GatewayCall("createTaskFromToDo", cursor, todo.blockLink,
                                                  callArgs.listId, NoId, getTodoTask(todo)))
                   /\ settings' = cacheTaskId(settings, gateway.nextTaskId, suffix)
                   /\ saving' = saveSettings(saving, settings')
                   /\ held' = Append(held, Handed(index, gateway.nextTaskId, suffix))
           /\ clock' = clock + 1
           /\ doc' = CASE replaced = "range" -> replaceRange(doc, text, start, end)
                       [] replaced = "swapped" -> replaceRangeSwapped(doc, text, start)
                       [] OTHER -> doc
           /\ callResult' = Return([ran |-> TRUE, endLine |-> endLine, group |-> group,
                                    body |-> body, childTasks |-> childTasks,
                                    start |-> start, end |-> end, replaced |-> replaced])
    /\ UNCHANGED <<col1, col2, merged, remerged, mpc, col3, assocL, assocR, callArgs,
                   deltaVars, cacheFile, mtime, cmd, savedSettings, adders, second, actionQueue, actionQueue>>

NextChildren ==
    \/ PostTaskAndChildrenNoList
    \/ \E push \in BOOLEAN : \E suffix \in Suffixes : \E ordered \in BOOLEAN :
          PostTaskAndChildren(push, suffix, ordered)

SpecChildren == InitChildren /\ [][NextChildren]_vars

----------------------------------------------------------------------------
(* syncVault run twice in succession.                                      *)

DueDay == "2025-01-02"

\* One tracked line, alone or under an untracked one.
RunDocs ==
    LET tracked == { Line("-", " ", title, "", due, "", TrackedAnchor) :
                        title \in {<<"A">>, <<"B">>}, due \in {NoDate, DueDay} }
    IN  { <<line>> : line \in tracked }
          \cup { <<Line("-", " ", <<"A">>, "", NoDate, "", NoAnchor), line>> : line \in tracked }

RunTasks ==
    { Snapshot(1, ts, title, status, importance, due, FALSE) :
        ts \in 1..MaxTime, title \in {<<"A">>, <<"B">>},
        status \in {"notStarted", "inProgress", "completed"},
        importance \in {"normal", "high"}, due \in {NoDate, DueDay} }

NoRuns == [runs |-> 1, calls |-> 0, doc |-> <<>>, lists |-> <<>>]

InitRuns ==
    /\ settings = [taskIdLookup |-> << [blockId |-> TrackedAnchor, taskId |-> 1] >>,
                   taskIdIndex |-> 1, todo_CreateToDoListIfMissing |-> FALSE]
    /\ doc \in RunDocs
    /\ mtime = DocTime
    /\ gateway \in
         { [lists |-> GatewayLists, tasks |-> << [listId |-> 1, task |-> t] >>, nextTaskId |-> 2] :
             t \in RunTasks }
    /\ cacheFile = NoFile
    /\ clock = MaxTime + 1
    /\ calls = <<>>
    /\ cmd = IdleCmd
    /\ savedSettings = settings
    /\ saving = <<>>
    /\ held = <<>>
    /\ adders = [a \in Adders |-> IdleAdder]
    /\ second = IdleCmd
    /\ actionQueue = IdleQueue
    /\ refresh = [c \in Calls |-> IdleCall]
    /\ started = 0
    /\ col1 = <<>> /\ col2 = <<>> /\ merged = <<>> /\ remerged = <<>> /\ mpc = "off"
    /\ col3 = <<>> /\ assocL = <<>> /\ assocR = <<>>
    /\ callArgs = NoRuns /\ callResult = NoResult

\* syncVault has returned and the command is called again, with no edit
\* and no remote change in between.
SyncVaultAgain ==
    /\ cmd.op = "syncVault" /\ cmd.pc = "done"
    /\ callArgs.runs = 1
    /\ callArgs' = [runs |-> 2, calls |-> Len(calls), doc |-> doc, lists |-> gateway.lists]
    /\ cmd' = IdleCmd
    /\ UNCHANGED <<col1, col2, merged, remerged, mpc, col3, assocL, assocR, callResult,
                   deltaVars, settings, doc, mtime, gateway, clock, calls, regVars>>

NextRuns ==
    \/ SyncVaultStart
    \/ SyncVaultEntry
    \/ SyncVaultAgain

SpecRuns == InitRuns /\ [][NextRuns]_vars

----------------------------------------------------------------------------
(* postTask run twice, on lines tagged with a list the service lacks.      *)

HomeLine(title) == Line("-", " ", title, "Home", NoDate, "", NoAnchor)

\* Two untracked lines; the first names the list Home, the second names it
\* too or names no list.
ListDocs ==
    { <<HomeLine(<<"A">>), below>> :
        below \in { HomeLine(<<"B">>), Line("-", " ", <<"B">>, "", NoDate, "", NoAnchor) } }

InitLists ==
    /\ settings = [taskIdLookup |-> <<>>, taskIdIndex |-> 0,
                   todo_CreateToDoListIfMissing |-> TRUE]
    /\ doc \in ListDocs
    /\ mtime = DocTime
    /\ gateway = [lists |-> GatewayLists, tasks |-> <<>>, nextTaskId |-> 1]
    /\ cacheFile \in
         { NoFile,
           FileOf(<< TasksDeltaCollection(<<>>, DeltaLink({}), 1, "Tasks"),
                     TasksDeltaCollection(<<>>, DeltaLink({}), 2, "Work") >>) }
    /\ clock = MaxTime + 1
    /\ calls = <<>>
    /\ cmd = IdleCmd
    /\ savedSettings = settings
    /\ saving = <<>>
    /\ held = <<>>
    /\ adders = [a \in Adders |-> IdleAdder]
    /\ second = IdleCmd
    /\ actionQueue = IdleQueue
    /\ refresh = [c \in Calls |-> IdleCall]
    /\ started = 0
    /\ col1 = <<>> /\ col2 = <<>> /\ merged = <<>> /\ remerged = <<>> /\ mpc = "off"
    /\ col3 = <<>> /\ assocL = <<>> /\ assocR = <<>>
    /\ callArgs = NoRuns /\ callResult = NoResult

\* postTask has returned and the command is called again.
PostTaskAgain ==
    /\ cmd.op = "postTask" /\ cmd.pc = "done"
    /\ callArgs.runs = 1
    /\ callArgs' = [runs |-> 2, calls |-> Len(calls), doc |-> doc, lists |-> gateway.lists]
    /\ cmd' = IdleCmd
    /\ UNCHANGED <<col1, col2, merged, remerged, mpc, col3, assocL, assocR, callResult,
                   deltaVars, settings, doc, mtime, gateway, clock, calls, regVars>>

NextLists ==
    \/ \E replace \in BOOLEAN, from, to \in 1..MaxLines : PostTaskStart(replace, from, to)
    \/ \E i \in 1..MaxLines, suffix \in Suffixes, listReturned \in BOOLEAN :
          PostTaskLine(i, suffix, listReturned)
    \/ PostTaskWrite
    \/ PostTaskAgain

SpecLists == InitLists /\ [][NextLists]_vars

----------------------------------------------------------------------------
(* A command called while another one waits at an await.                   *)

InFlight(run) == run.pc \in {"lines", "write"}

OverlapDocs ==
    { <<Line("-", " ", <<"A">>, "", NoDate, "", NoAnchor)>>,
      <<Line("-", " ", <<"A">>, "", NoDate, "", NoAnchor),
        Line("-", " ", <<"B">>, "", NoDate, "", NoAnchor)>> }

InitOverlap ==
    /\ settings = [taskIdLookup |-> <<>>, taskIdIndex |-> 0,
                   todo_CreateToDoListIfMissing |-> FALSE]
    /\ doc \in OverlapDocs
    /\ mtime = DocTime
    /\ gateway = [lists |-> GatewayLists, tasks |-> <<>>, nextTaskId |-> 1]
    /\ cacheFile \in
         { NoFile,
           FileOf(<< TasksDeltaCollection(<<>>, DeltaLink({}), 1, "Tasks"),
                     TasksDeltaCollection(<<>>, DeltaLink({}), 2, "Work") >>) }
    /\ clock = MaxTime + 1
    /\ calls = <<>>
    /\ cmd = IdleCmd
    /\ second = IdleCmd
    /\ actionQueue = IdleQueue
    /\ savedSettings = settings
    /\ saving = <<>>
    /\ held = <<>>
    /\ adders = [a \in Adders |-> IdleAdder]
    /\ refresh = [c \in Calls |-> IdleCall]
    /\ started = 0
    /\ col1 = <<>> /\ col2 = <<>> /\ merged = <<>> /\ remerged = <<>> /\ mpc = "off"
    /\ col3 = <<>> /\ assocL = <<>> /\ assocR = <<>>
    /\ callArgs = <<>> /\ callResult = NoResult

\* The command in progress waits at one of its awaits and the event loop
\* turns to the other one: to a command callback the user has just
\* triggered, which nothing holds back or queues, or back to the command
\* that was left waiting.
Yield ==
    /\ \/ InFlight(cmd) /\ second.pc = "idle"
       \/ InFlight(second)
    /\ cmd' = second
    /\ second' = cmd
    /\ UNCHANGED <<settings, doc, mtime, gateway, clock, calls, savedSettings, saving, held,
                   adders, actionQueue, mergeVars, deltaVars>>

NextOverlap ==
    \/ \E replace \in BOOLEAN, from, to \in 1..MaxLines : PostTaskStart(replace, from, to)
    \/ \E i \in 1..MaxLines, suffix \in Suffixes, listReturned \in BOOLEAN :
          PostTaskLine(i, suffix, listReturned)
    \/ PostTaskWrite
    \/ Yield

SpecOverlap == InitOverlap /\ [][NextOverlap]_vars

----------------------------------------------------------------------------
(* getTaskDelta calls in flight together, as postTask starts them for the  *)
(* tracked lines of a selection once its own first refresh has written the *)
(* file.  gateway.tasks holds, in the order the gateway recorded them, the *)
(* versions of the tasks of the list; a delta link stands for all versions *)
(* recorded when it was issued.                                            *)

InitConcurrent ==
    /\ \E allTasks \in SeqsUpTo(DeltaTasks, 1) :
          /\ cacheFile = FileOf(<< TasksDeltaCollection(allTasks, DeltaLink(Range(allTasks)),
                                                        1, "Tasks") >>)
          /\ gateway = [IdleGateway EXCEPT !.tasks = allTasks]
    /\ refresh = [c \in Calls |-> IdleCall]
    /\ started = 0
    /\ col1 = <<>> /\ col2 = <<>> /\ merged = <<>> /\ remerged = <<>> /\ mpc = "off"
    /\ col3 = <<>> /\ assocL = <<>> /\ assocR = <<>>
    /\ callArgs = cacheFile /\ callResult = NoResult
    /\ settings = IdleSettings
    /\ doc = <<>>
    /\ mtime = 0
    /\ clock = 0
    /\ calls = <<>>
    /\ cmd = IdleCmd
    /\ savedSettings = IdleSettings
    /\ saving = <<>>
    /\ held = <<>>
    /\ adders = [a \in Adders |-> IdleAdder]
    /\ second = IdleCmd
    /\ actionQueue = IdleQueue

\* A task of the list is created or changed on the gateway.
RemoteChange ==
    /\ \E t \in DeltaTasks :
          /\ \A i \in 1..Len(gateway.tasks) :
                gateway.tasks[i].lastModifiedDateTime < t.lastModifiedDateTime
          /\ gateway' = [gateway EXCEPT !.tasks = Append(@, t)]
    /\ UNCHANGED <<settings, doc, mtime, clock, calls, cmd, mergeVars, deltaVars, regVars>>

\* Every version of the set is on the pages, or a newer one of the same task.
Reported(versions, pages) ==
    \A t \in versions : \E u \in pages :
        u.id = t.id /\ u.lastModifiedDateTime >= t.lastModifiedDateTime

\* The gateway answers a GET of the delta endpoint with a page of versions
\* recorded since the link the chain started from; the last page closes the
\* chain once all of them are reported and carries the link of that moment.
FetchPageSince(c) ==
    /\ refresh[c].pc = "fetch"
    /\ \E value \in PageValues, nextLink \in BOOLEAN :
          LET passed == refresh[c].cachedTasksDelta[refresh[c].li].deltaLink
              recorded == Range(gateway.tasks)
              sent == refresh[c].sent \cup Range(value)
              response == [value |-> value, nextLink |-> nextLink,
                           deltaLink |-> IF nextLink THEN EmptyLink ELSE DeltaLink(recorded)]
          IN /\ nextLink => refresh[c].pages + 1 < MaxPages
             /\ Range(value) \subseteq recorded \ passed.batch
             /\ ~nextLink => Reported(recorded \ passed.batch, sent)
             /\ refresh' = [refresh EXCEPT ![c] = OnResponse(refresh[c], response)]
    /\ UNCHANGED <<cacheFile, started, mergeVars, reconVars, regVars>>

NextConcurrent ==
    \/ \E c \in Calls : StartRefresh(c, FALSE, FALSE)
    \/ \E c \in Calls : GetDeltaCache(c)
    \/ \E c \in Calls : FetchPageSince(c)
    \/ \E c \in Calls : SetDeltaCache(c)
    \/ RemoteChange

SpecConcurrent == InitConcurrent /\ [][NextConcurrent]_vars

----------------------------------------------------------------------------
(* Driver of ActionQueue: callers add actions at any moment, the promise   *)
(* of a called action resolves or rejects, the timer of sleep fires.       *)

MaxActions == 6

InitQueue ==
    /\ actionQueue = IdleQueue
    /\ cacheFile = NoFile
    /\ refresh = [c \in Calls |-> IdleCall]
    /\ started = 0
    /\ col1 = <<>> /\ col2 = <<>> /\ merged = <<>> /\ remerged = <<>> /\ mpc = "off"
    /\ col3 = <<>> /\ assocL = <<>> /\ assocR = <<>>
    /\ callArgs = <<>> /\ callResult = NoResult
    /\ settings = IdleSettings
    /\ doc = <<>>
    /\ mtime = 0
    /\ gateway = IdleGateway
    /\ clock = 0
    /\ calls = <<>>
    /\ cmd = IdleCmd
    /\ savedSettings = IdleSettings
    /\ saving = <<>>
    /\ held = <<>>
    /\ adders = [a \in Adders |-> IdleAdder]
    /\ second = IdleCmd

queueFrame == <<mergeVars, deltaVars, reconVars, savedSettings, saving, held, adders, second>>

\* The actions addAction was called with so far.
Added == Len(actionQueue.order) + Len(actionQueue.queue)

Runs == 1..Len(actionQueue.runs)

\* addAction(action) is called: by a command, by an action that is running,
\* or while the queue sleeps.
AddAction ==
    /\ Added < MaxActions
    /\ actionQueue' = addAction(actionQueue, Added + 1)
    /\ UNCHANGED queueFrame

\* Line 22: the promise of the action resolves; processQueue goes on to
\* sleep(delay).
ActionResolves(r) ==
    /\ actionQueue.runs[r].pc = "action"
    /\ actionQueue' = [actionQueue EXCEPT !.runs[r].pc = "sleep"]
    /\ UNCHANGED queueFrame

\* Line 22: the promise of the action rejects; the await throws and nothing
\* in processQueue catches it.
ActionRejects(r) ==
    /\ actionQueue.runs[r].pc = "action"
    /\ actionQueue' = [actionQueue EXCEPT !.runs[r].pc = "thrown"]
    /\ UNCHANGED queueFrame

\* Line 23: the timer fires; processQueue goes back to the loop condition.
SleepEnds(r) ==
    /\ actionQueue.runs[r].pc = "sleep"
    /\ actionQueue' = whileLoop(actionQueue, r)
    /\ UNCHANGED queueFrame

ActionSettles == \E r \in Runs : ActionResolves(r) \/ ActionRejects(r)

TimerFires == \E r \in Runs : SleepEnds(r)

NextQueue ==
    \/ AddAction
    \/ \E r \in Runs : ActionResolves(r)
    \/ \E r \in Runs : ActionRejects(r)
    \/ \E r \in Runs : SleepEnds(r)

SpecQueue == InitQueue /\ [][NextQueue]_vars

\* Every called action settles and every timer fires.
SpecQueueLive == SpecQueue /\ WF_vars(ActionSettles) /\ WF_vars(TimerFires)

----------------------------------------------------------------------------
(* Claims about the reconciler (specification Spec).                       *)

Items == Range(cmd.items)

\* The gateway writes issued while the item was handled.
CallsFor(item) ==
    { k \in 1..Len(calls) : calls[k].line = item.line /\ calls[k].blockId = item.blockId }

OpsFor(item) == { calls[k].op : k \in CallsFor(item) }

TaskWrites ==
    {"updateTaskFromToDo", "createTaskFromToDo", "createLinkedResource", "updateLinkedResource"}

\* The line has a block link and the registry gave an id for it.
Tracked(item) == hasBlockLink(item.todo) /\ hasId(item.todo)

\* C1: a tracked line whose parsed record equals the cached snapshot gets
\* no gateway write (update, create, linked-resource create or update),
\* in postTask and in syncVault.
C1_NoOpSuppression ==
    \A item \in Items :
        (Tracked(item) /\ item.cachedTask # NoTask /\ equals(item.todo, item.cachedTask))
            => OpsFor(item) \cap TaskWrites = {}

\* postTask has finished on a selection holding a tracked line equal to
\* its snapshot and another line for which it did write to the gateway.
C1_Witness ==
    /\ cmd.op = "postTask" /\ cmd.pc = "done"
    /\ \E item \in Items :
          /\ Tracked(item) /\ item.cachedTask # NoTask
          /\ equals(item.todo, item.cachedTask)
    /\ Len(calls) > 0

\* C2: for a selected line without a block link whose list resolves,
\* postTask, with either replace flag, issues exactly one create call,
\* adds exactly one registry entry from a new block link to the returned
\* id, and the line written to the document ends with that block link.
C2_NewTaskAnchored ==
    (cmd.op = "postTask" /\ cmd.pc = "done") =>
        \A item \in Items :
            (~hasBlockLink(item.todo) /\ item.listId # NoId) =>
                /\ Cardinality({ k \in CallsFor(item) : calls[k].op = "createTaskFromToDo" }) = 1
                /\ Cardinality({ e \in 1..Len(settings.taskIdLookup) :
                                    settings.taskIdLookup[e].taskId = item.returned }) = 1
                /\ item.minted # NoAnchor
                /\ \E e \in 1..Len(settings.taskIdLookup) :
                      settings.taskIdLookup[e] = [blockId |-> item.minted, taskId |-> item.returned]
                /\ doc[item.line].anchor = item.minted

\* C3: for a selected line whose block link is not in the registry,
\* postTask issues no create call and mints no block link.
C3_DanglingAnchorSkipped ==
    \A item \in Items :
        (cmd.op = "postTask" /\ hasBlockLink(item.todo) /\ ~hasId(item.todo)) =>
            /\ "createTaskFromToDo" \notin OpsFor(item)
            /\ item.minted = NoAnchor

\* C4 as stated: a tracked line with no snapshot in the cache gets no
\* update and no linked-resource write and its line is not rewritten, in
\* postTask and in syncVault.
C4_CacheMissLineUntouched ==
    \A item \in Items :
        (Tracked(item) /\ item.cachedTask = NoTask) =>
            /\ OpsFor(item) \cap TaskWrites = {}
            /\ item.result = item.text

\* C4: a tracked line with no snapshot in the cache gets no update and no
\* linked-resource write; syncVault and postTask without replace leave
\* the line as it is, postTask with replace writes the line formatted
\* again from its own parsed record.
C4_CacheMissNoGatewayWrite ==
    \A item \in Items :
        (Tracked(item) /\ item.cachedTask = NoTask) =>
            /\ OpsFor(item) \cap TaskWrites = {}
            /\ item.result = IF cmd.op = "postTask" /\ cmd.replace
                              THEN getMarkdownTask(item.todo)
                              ELSE item.text
            /\ (cmd.op = "postTask" /\ cmd.pc = "done") => doc[item.line] = item.result
            /\ cmd.op = "syncVault" => doc = cmd.source

\* postTask with replace has written a document in which a tracked line
\* without snapshot differs from the text read.
C4_Witness ==
    /\ cmd.op = "postTask" /\ cmd.pc = "done" /\ cmd.replace
    /\ \E item \in Items :
          /\ Tracked(item) /\ item.cachedTask = NoTask
          /\ doc[item.line] # cmd.source[item.line]

\* C5: in syncVault, for a tracked task whose record differs from the
\* snapshot: a remote timestamp after the document mtime rewrites the
\* line from the snapshot with no gateway write; otherwise exactly one
\* update with the local fields is issued and the line is not rewritten.
C5_DirectionResolution ==
    \A item \in Items :
        (/\ cmd.op = "syncVault"
         /\ Tracked(item) /\ item.cachedTask # NoTask
         /\ ~equals(item.todo, item.cachedTask)) =>
            IF item.cachedTask.lastModifiedDateTime > cmd.mtime
            THEN /\ item.result = getMarkdownTask(updateFromTodoTask(item.todo, item.cachedTask))
                 /\ CallsFor(item) = {}
            ELSE /\ Cardinality(CallsFor(item)) = 1
                 /\ \A k \in CallsFor(item) :
                       /\ calls[k].op = "updateTaskFromToDo"
                       /\ calls[k].body = getTodoTask(item.todo)
                 /\ item.result = item.text

----------------------------------------------------------------------------
(* Claims about mergeCollections (SpecMerge).                              *)

IdsOf(col) == { t.id : t \in Range(col) } \ {NoId}

WithId(col, id) == { i \in 1..Len(col) : col[i].id = id }

\* C9: for every remote id occurring in col1 or col2, the merge holds
\* exactly one record with that id, its timestamp is maximal among the
\* records of that id, and a record without a timestamp is kept only when
\* no record of that id has one.
C9_MergeKeepsNewestPerId ==
    mpc # "input" =>
        \A id \in IdsOf(col1 \o col2) :
            /\ Cardinality(WithId(merged, id)) = 1
            /\ \A i \in WithId(merged, id) : \A t \in Range(col1 \o col2) :
                   t.id = id =>
                       /\ t.lastModifiedDateTime <= merged[i].lastModifiedDateTime
                       /\ merged[i].lastModifiedDateTime = NoTime
                             => t.lastModifiedDateTime = NoTime

\* C10: merging the merge result with b again changes nothing:
\* mergeCollections(mergeCollections(a, b), b) = mergeCollections(a, b),
\* as arrays (same records in the same order).
C10_MergeIdempotent == mpc = "remerged" => remerged = merged

\* C10 witness: a merge in which a record of col2 replaced a record of col1
\* and col2 also added an id of its own, merged a second time with col2.
C10_Witness ==
    /\ mpc = "remerged"
    /\ Len(merged) = 2
    /\ \E i \in 1..Len(col1), j \in 1..Len(col2) :
          /\ col1[i].id = col2[j].id
          /\ col1[i].lastModifiedDateTime # NoTime
          /\ col2[j].lastModifiedDateTime > col1[i].lastModifiedDateTime

\* Every record has an id and a timestamp and no two records share an id.
Clean(col) ==
    /\ \A i \in 1..Len(col) : col[i].id # NoId /\ col[i].lastModifiedDateTime # NoTime
    /\ \A i, j \in 1..Len(col) : i # j => col[i].id # col[j].id

RecordsOf(col, id) == { col[i] : i \in WithId(col, id) }

\* C12: mergeCollections(mergeCollections(a, b), c) and
\* mergeCollections(a, mergeCollections(b, c)) hold the same record for
\* every remote id, also when records of one id carry equal timestamps.
C12_MergeAssociative ==
    mpc = "grouped" =>
        \A id \in IdsOf(col1 \o col2 \o col3) :
            /\ RecordsOf(assocL, id) = RecordsOf(assocR, id)
            /\ Cardinality(WithId(assocL, id)) = Cardinality(WithId(assocR, id))

\* C12 witness: the first and the third collection hold records of one
\* id with equal timestamps and different content, the second collection
\* holds an older record of that id, and both groupings keep the record
\* of the first collection.
C12_Witness ==
    /\ mpc = "grouped"
    /\ \E i \in 1..Len(col1), j \in 1..Len(col3), k \in 1..Len(col2) :
          /\ col1[i].id = col3[j].id
          /\ col1[i].lastModifiedDateTime = col3[j].lastModifiedDateTime
          /\ col1[i] # col3[j]
          /\ col2[k].id = col1[i].id
          /\ col2[k].lastModifiedDateTime < col1[i].lastModifiedDateTime
          /\ assocL = <<col1[i]>>

----------------------------------------------------------------------------
(* Claims about the delta cache (SpecDelta).                               *)

Usable(t) == t.id # NoId /\ t.lastModifiedDateTime # NoTime

\* Every usable task of the batch is in the list, or a record of the same id
\* that is at least as new.
Covered(batch, allTasks) ==
    \A t \in batch : Usable(t) =>
        \E i \in 1..Len(allTasks) :
            /\ allTasks[i].id = t.id
            /\ allTasks[i].lastModifiedDateTime >= t.lastModifiedDateTime

PersistedLists == { cacheFile.allLists[i] : i \in 1..Len(cacheFile.allLists) }

\* C6: in every reachable state, also after a crash at an await point, the
\* delta link stored in the file for a list was issued by the gateway with a
\* batch that is merged into the task list stored in the same file.
C6_TokenNeverSkipsData ==
    \A list \in PersistedLists :
        list.deltaLink.issued => Covered(list.deltaLink.batch, list.allTasks)

\* C6 witness: after a crash, the file holds a list whose link was issued
\* with a task that the merge dropped for a newer cached record.
C6_Witness ==
    /\ \A c \in Calls : refresh[c].pc = "idle"
    /\ started >= 2
    /\ \E list \in PersistedLists :
          /\ list.deltaLink.issued
          /\ \E t \in list.deltaLink.batch : t \notin Range(list.allTasks)

\* C7: when getLists or a GET of getTasksDelta rejects in a refresh without
\* reset, the file has the content it had when the refresh started.
C7_FailClosedRefresh ==
    \A c \in Calls :
        (refresh[c].pc = "failed" /\ ~refresh[c].reset) => cacheFile = refresh[c].before

\* C7 witness: the rejection comes in the second list's fetch, after the
\* first list's delta changed the in-memory copy of an existing file.
C7_Witness ==
    \E c \in Calls :
        /\ refresh[c].pc = "failed"
        /\ ~refresh[c].reset
        /\ refresh[c].li = 2
        /\ cacheFile.exists
        /\ refresh[c].cachedTasksDelta[1] # cacheFile.allLists[1]

\* C13: in a refresh with reset, the first request for every list goes to
\* the base delta endpoint (empty token), never to a token the file held
\* before the reset, and the file saved at the end holds only tasks the
\* gateway returned to this refresh.
C13_ResetForcesFullResync ==
    \A c \in Calls :
        refresh[c].reset =>
            /\ refresh[c].pc = "fetch" =>
                  refresh[c].cachedTasksDelta[refresh[c].li].deltaLink = EmptyLink
            /\ refresh[c].last.done => refresh[c].last.passed = EmptyLink
            /\ (refresh[c].pc = "done" /\ ~refresh[c].skipRemoteCheck) =>
                  /\ cacheFile.exists
                  /\ \A list \in PersistedLists : Range(list.allTasks) \subseteq refresh[c].got

\* C13 witness: a reset refresh has saved a file with a task, and the file
\* it removed held a list with a token issued by the gateway.
C13_Witness ==
    \E c \in Calls :
        /\ refresh[c].reset /\ ~refresh[c].skipRemoteCheck
        /\ refresh[c].pc = "done"
        /\ \E link \in refresh[c].tokens : link.issued /\ link.batch # {}
        /\ \E list \in PersistedLists : Len(list.allTasks) > 0

\* C14: when TodoApi.getTasksDelta returns, the last page it read carried
\* no next-page pointer, the batch holds the tasks of every page it was
\* given, and the token returned differs from the one passed in only when
\* it is the delta link of that last page; also with empty pages.
C14_DeltaPaging ==
    \A c \in Calls :
        refresh[c].last.done =>
            /\ ~refresh[c].last.nextLink
            /\ refresh[c].last.allTasks = refresh[c].last.given
            /\ refresh[c].last.deltaLink # refresh[c].last.passed =>
                  refresh[c].last.deltaLink = refresh[c].last.pageLink

\* C8: no list of the persisted cache holds two entries with the same id.
C8_NoDuplicateIds ==
    \A list \in PersistedLists :
        \A i, j \in 1..Len(list.allTasks) :
            i # j => list.allTasks[i].id # list.allTasks[j].id

----------------------------------------------------------------------------
(* Claims about the registry (SpecRegistry and Spec).                      *)

\* C15: the block links handed out by sequential cacheTaskId calls that
\* start from taskIdIndex 0 are pairwise distinct, also when letter case is
\* ignored and whatever Math.random draws, and every call has raised
\* taskIdIndex by exactly one.
C15_AnchorsUnique ==
    /\ \A i, j \in 1..Len(held) :
          i # j => toLowerCase(held[i].blockLink) # toLowerCase(held[j].blockLink)
    /\ settings.taskIdIndex = Len(held)

\* Two calls that drew the same random characters.
C15_Witness ==
    /\ Len(held) >= 2
    /\ held[1].suffix = held[2].suffix

\* C16: whenever a caller holds a block link returned by cacheTaskId, the
\* settings written to data.json already carry the counter value the link
\* was built from and the entry that maps the link to its remote id.
C16_PersistedBeforeHandOut ==
    \A k \in 1..Len(held) :
        /\ savedSettings.taskIdIndex >= k
        /\ \E e \in 1..Len(savedSettings.taskIdLookup) :
              /\ savedSettings.taskIdLookup[e].blockId = held[k].blockLink
              /\ savedSettings.taskIdLookup[e].taskId = held[k].id

\* Letter-case variants of a block id: as stored, all lower case, and lower
\* case after the first character.
CaseVariants(blockId) ==
    { blockId, toLowerCase(blockId),
      [k \in 1..Len(blockId) |-> IF k = 1 THEN blockId[k] ELSE toLowerCase(blockId)[k]] }

\* C18: for every block id stored in the registry and every letter-case
\* variant of it, getTaskIdFromBlockId(variant) is the stored remote id,
\* and a line that ends with ^variant parses to a task that has that id.
C18_CaseInsensitiveResolution ==
    \A e \in 1..Len(settings.taskIdLookup) :
        \A variant \in CaseVariants(settings.taskIdLookup[e].blockId) :
            LET stored == settings.taskIdLookup[e].taskId
                line == Line("-", " ", <<"A">>, "", NoDate, "", variant)
                todo == ObsidianTodoTask(settings.taskIdLookup, line)
            IN  /\ getTaskIdFromBlockId(settings.taskIdLookup, variant) = stored
                /\ hasId(todo)
                /\ todo.id = stored

\* The half of C18 that goes through getTaskIdFromBlockId.
C18_LookupPath ==
    \A e \in 1..Len(settings.taskIdLookup) :
        \A variant \in CaseVariants(settings.taskIdLookup[e].blockId) :
            getTaskIdFromBlockId(settings.taskIdLookup, variant)
                = settings.taskIdLookup[e].taskId

\* C17: no step of postTask, getTask, syncVault, addMissingTasksToVault or
\* a refresh removes a registry entry or changes the remote id a stored
\* block id maps to; only the steps of cleanupCachedTaskIds may.
C17_RegistryAdditive ==
    [][cmd'.op # "cleanup" =>
         \A e \in 1..Len(settings.taskIdLookup) :
             /\ \E f \in 1..Len(settings'.taskIdLookup) :
                   settings'.taskIdLookup[f] = settings.taskIdLookup[e]
             /\ \A f \in 1..Len(settings'.taskIdLookup) :
                   settings'.taskIdLookup[f].blockId = settings.taskIdLookup[e].blockId
                       => settings'.taskIdLookup[f].taskId = settings.taskIdLookup[e].taskId]_vars

\* A command other than the cleanup has written a new entry next to the
\* ones it found.
C17_Witness ==
    /\ cmd.op \in {"postTask", "addMissing"}
    /\ held # <<>>
    /\ Len(settings.taskIdLookup) > Len(savedSettings.taskIdLookup)
    /\ \A e \in 1..Len(savedSettings.taskIdLookup) :
          \E f \in 1..Len(settings.taskIdLookup) :
              settings.taskIdLookup[f] = savedSettings.taskIdLookup[e]

\* The cleanup has removed an entry.
C17_CleanupRemoves ==
    /\ cmd.op = "cleanup"
    /\ Len(settings.taskIdLookup) < Len(cmd.keys)

\* Registry entries that map to taskId.
AnchorsOf(taskIdLookup, taskId) ==
    { e \in 1..Len(taskIdLookup) : taskIdLookup[e].taskId = taskId }

\* C19: whatever addMissingTasksToVault runs have done, two of them started
\* before either finished included, every remote id they minted a block id
\* for is mapped by exactly one block id of the registry.
C19_OneAnchorPerRemoteTask ==
    \A a \in Adders :
        \A i \in 1..Len(adders[a].minted) :
            Cardinality(AnchorsOf(settings.taskIdLookup, adders[a].minted[i].taskId)) = 1

\* Two runs were in progress together, the first to reach its loop minted
\* block ids, and the second found every task of its cache tracked.
C19_Witness ==
    \E a, b \in Adders :
        /\ a # b
        /\ adders[a].pc = "done" /\ adders[b].pc = "done"
        /\ adders[a].overlapped
        /\ adders[a].minted # <<>>
        /\ adders[b].minted = <<>>
        /\ \E i \in 1..Len(adders[a].minted) :
              \E k \in 1..Len(TasksInOrder(adders[b].cachedTasksDelta)) :
                  TasksInOrder(adders[b].cachedTasksDelta)[k].task.id = adders[a].minted[i].taskId

\* The tasks of a run's delta cache that had an id and no block id when
\* the run reached its loop.
Untracked(a) ==
    { row.task : row \in { r \in Range(TasksInOrder(adders[a].cachedTasksDelta)) :
                              /\ r.task.id # NoId
                              /\ AnchorsOf(adders[a].before, r.task.id) = {} } }

\* The task has exactly one block id the registry did not have before the
\* run, and the text the run inserted has exactly one line that ends with
\* it, the line getMarkdownTask gives for the task.
Backfilled(a, task) ==
    LET new == { e \in AnchorsOf(settings.taskIdLookup, task.id) :
                   settings.taskIdLookup[e] \notin Range(adders[a].before) }
    IN  /\ Cardinality(new) = 1
        /\ \A e \in new :
              LET ending == { k \in 1..Len(adders[a].addedTasks) :
                               adders[a].addedTasks[k].anchor = settings.taskIdLookup[e].blockId }
              IN  /\ Cardinality(ending) = 1
                  /\ \A k \in ending :
                        /\ adders[a].addedTasks[k].title = task.title
                        /\ adders[a].addedTasks[k] \in Range(doc)

Forgotten(blockId) ==
    \A e \in 1..Len(settings.taskIdLookup) : settings.taskIdLookup[e].blockId # blockId

\* Some block of the documents the cleanup looked at is named blockId, up
\* to letter case.
BlockExists(blockId) ==
    \E i \in 1..Len(cmd.source) :
        /\ cmd.source[i].anchor # NoAnchor
        /\ toLowerCase(cmd.source[i].anchor) = toLowerCase(blockId)

\* C21: when cleanupCachedTaskIds has finished, a block id it found in the
\* registry is gone exactly if no document has a block of that name (the
\* whole name, up to letter case), no gateway call was made and the
\* document is as it was.
C21_ExactGarbageCollection ==
    (cmd.op = "cleanup" /\ cmd.pc = "done") =>
        /\ \A k \in 1..Len(cmd.keys) : Forgotten(cmd.keys[k]) <=> ~BlockExists(cmd.keys[k])
        /\ calls = <<>>
        /\ doc = cmd.source

\* The parts of C21 that do not depend on how names are compared: a block
\* id whose block exists is kept, nothing is called, nothing is written.
C21_KeepsNamedBlocks ==
    (cmd.op = "cleanup" /\ cmd.pc = "done") =>
        /\ \A k \in 1..Len(cmd.keys) : BlockExists(cmd.keys[k]) => ~Forgotten(cmd.keys[k])
        /\ calls = <<>>
        /\ doc = cmd.source

----------------------------------------------------------------------------
(* Claims about failures in postTask (SpecVault and Spec).                 *)

\* C22: when a postTask run that replaces lines has ended, also one in
\* which the gateway call of some line rejected, every block id minted in
\* the run for a remote task that was created ends a line of the document.
C22_MintedAnchorsWritten ==
    (cmd.op = "postTask" /\ cmd.replace /\ cmd.pc \in {"done", "failed"}) =>
        \A item \in Items :
            item.minted # NoAnchor =>
                \E k \in 1..Len(doc) : doc[k].anchor = item.minted

\* The same for the runs in which no gateway call rejected.
C22_WrittenWithoutRejection ==
    (cmd.op = "postTask" /\ cmd.replace /\ cmd.pc = "done") =>
        \A item \in Items :
            item.minted # NoAnchor =>
                \E k \in 1..Len(doc) : doc[k].anchor = item.minted

\* The line's list name is the name of no cached list.
UnknownList(item) ==
    \A l \in 1..Len(cmd.cachedTasksDelta) : cmd.cachedTasksDelta[l].name # item.todo.listName

NoticesFor(item) == { n \in Range(cmd.notices) : n.line = item.line }

\* C23: when postTask has finished, every selected line that is not
\* tracked, names an unknown list and could not get one (creation is off,
\* or createTaskList gave nothing) has a user notice and no
\* createTaskFromToDo call, and every selected line, the others included,
\* has been handled and written to the document.
C23_UnknownListIsolated ==
    (cmd.op = "postTask" /\ cmd.pc = "done") =>
        /\ \A item \in Items :
              /\ (~Tracked(item) /\ UnknownList(item)
                     /\ ~settings.todo_CreateToDoListIfMissing)
                    => NoticesFor(item) # {}
              /\ NoticesFor(item) # {} => "createTaskFromToDo" \notin OpsFor(item)
              /\ (~Tracked(item) /\ UnknownList(item)) =>
                    (NoticesFor(item) # {} \/ "createTaskList" \in OpsFor(item))
        /\ \A j \in cmd.lines :
              \E item \in Items : item.line = j /\ doc[j] = item.result

\* A finished run in which one line got the notice and another line got a
\* remote task and a block id.
C23_Witness ==
    /\ cmd.op = "postTask" /\ cmd.pc = "done"
    /\ \E item \in Items : NoticesFor(item) # {} /\ UnknownList(item)
    /\ \E item \in Items : item.minted # NoAnchor /\ "createTaskFromToDo" \in OpsFor(item)

\* The same with the notice of a list creation that gave nothing.
C23_WitnessNothingReturned ==
    /\ cmd.op = "postTask" /\ cmd.pc = "done"
    /\ \E n \in Range(cmd.notices) : n.message = "Error_UnableToCreateList"
    /\ \E item \in Items : item.minted # NoAnchor

----------------------------------------------------------------------------
(* Claims about syncVault (Spec and SpecIndex).                            *)

\* C24: whenever syncVault has pushed a local task to the gateway, it has
\* also created the task's linked resource when the cached snapshot had
\* none, or updated it when the snapshot had one.
C24_PushSyncsLinkedResource ==
    cmd.op = "syncVault" =>
        \A item \in Items :
            "updateTaskFromToDo" \in OpsFor(item) =>
                IF item.cachedTask.linked
                THEN "updateLinkedResource" \in OpsFor(item)
                ELSE "createLinkedResource" \in OpsFor(item)

\* C25: for every block id met in the vault, the local index holds the
\* copy from the page with the greatest mtime, in whatever order the
\* blocks were enumerated.
C25_NewestCopyIndexed ==
    callResult.done =>
        \A k \in 1..Len(callArgs) :
            LocalTaskOf(callResult.value, callArgs[k].blockId).mtime >= callArgs[k].mtime

\* The index holds, for every block id met, the copy enumerated last.
C25_LastCopyIndexed ==
    callResult.done =>
        \A k \in 1..Len(callArgs) :
            (\A j \in (k + 1)..Len(callArgs) : callArgs[j].blockId # callArgs[k].blockId)
                => LocalTaskOf(callResult.value, callArgs[k].blockId) = callArgs[k]

\* What syncVault found for a registry entry: no block of that name in the
\* vault, no snapshot for its remote id, or a snapshot without
\* lastModifiedDateTime.
NoLocalBlock(item) ==
    \A k \in 1..Len(cmd.source) :
        cmd.source[k].anchor = NoAnchor
            \/ toLowerCase(cmd.source[k].anchor) # toLowerCase(item.blockId)
CachedSnapshot(item) == FindTask(cacheFile.allLists, item.todo.id).task
NoSnapshot(item) == CachedSnapshot(item) = NoTask
NoTimestamp(item) ==
    CachedSnapshot(item) # NoTask /\ CachedSnapshot(item).lastModifiedDateTime = NoTime

\* C26: for every registry entry syncVault has handled whose block id has
\* no block in the vault, or whose remote id has no snapshot in the delta
\* cache, or whose snapshot has no lastModifiedDateTime, no gateway write
\* was issued and the line was left as it was; and when syncVault has
\* finished, every registry entry has been handled.
C26_UnresolvableEntriesSkipped ==
    cmd.op = "syncVault" =>
        /\ \A item \in Items :
              (NoLocalBlock(item) \/ NoSnapshot(item) \/ NoTimestamp(item)) =>
                  /\ OpsFor(item) = {}
                  /\ item.result = item.text
        /\ cmd.pc = "done" =>
              \A e \in 1..Len(settings.taskIdLookup) :
                  \E item \in Items : item.blockId = settings.taskIdLookup[e].blockId

\* A finished syncVault that skipped an entry without a block and, after
\* it or before it, handled an entry whose block and snapshot exist.
C26_Witness ==
    /\ cmd.op = "syncVault" /\ cmd.pc = "done"
    /\ \E item \in Items : NoLocalBlock(item)
    /\ \E item \in Items : ~NoLocalBlock(item) /\ ~NoSnapshot(item) /\ ~NoTimestamp(item)

\* An entry skipped for want of a snapshot, and one skipped for want of a
\* timestamp.
C26_WitnessNoSnapshot ==
    cmd.op = "syncVault" /\ \E item \in Items : ~NoLocalBlock(item) /\ NoSnapshot(item)
C26_WitnessNoTimestamp ==
    cmd.op = "syncVault" /\ \E item \in Items : ~NoLocalBlock(item) /\ NoTimestamp(item)

----------------------------------------------------------------------------
(* Claims about task records and lines (SpecRoundTrip, SpecEquals).        *)

\* C27: parsing the line getMarkdownTask(true) gives for a task record
\* yields a record with the same title, status, importance and due date.
C27_RoundTrip ==
    callResult.done =>
        /\ callResult.value.title = callArgs.title
        /\ callResult.value.status = callArgs.status
        /\ callResult.value.importance = callArgs.importance
        /\ callResult.value.due = callArgs.due

\* What the round trip does keep: the importance and the due date always,
\* the title when the importance is normal, the status unless it is
\* inProgress.
C27_RoundTripKept ==
    callResult.done =>
        /\ callResult.value.importance = callArgs.importance
        /\ callResult.value.due = callArgs.due
        /\ callArgs.importance = "normal" => callResult.value.title = callArgs.title
        /\ callArgs.status # "inProgress" => callResult.value.status = callArgs.status

\* The due date a dueDateTime property stands for: none when it is undefined
\* or null, else the calendar date of its dateTime.
NoDueDate(due) == due.kind # "value"
CalendarDate(due) == due.dateTime[1]
SameDueDate(local, remote) ==
    \/ NoDueDate(local) /\ NoDueDate(remote)
    \/ /\ ~NoDueDate(local) /\ ~NoDueDate(remote)
       /\ CalendarDate(local) = CalendarDate(remote)

\* C28: equals returns true exactly when title, status and importance are
\* identical and the due dates are the same calendar date, two absent due
\* dates matching and an absent one never matching a present one.
C28_EqualsExact ==
    callResult.done =>
        (callResult.value <=>
            /\ callArgs.local.title = callArgs.remote.title
            /\ callArgs.local.status = callArgs.remote.status
            /\ callArgs.local.importance = callArgs.remote.importance
            /\ SameDueDate(callArgs.local.dueDateTime, callArgs.remote.dueDateTime))

\* A record without due date compared with the TodoTask it sends itself.
C28_OwnTodoTaskEqual ==
    (callResult.done /\ callArgs.remote = getTodoTask(callArgs.local)) => callResult.value

\* Apart from a null due date on the remote side, equals is exact.
C28_EqualsExactWithoutNull ==
    (callResult.done /\ callArgs.remote.dueDateTime.kind # "null") =>
        (callResult.value <=>
            /\ callArgs.local.title = callArgs.remote.title
            /\ callArgs.local.status = callArgs.remote.status
            /\ callArgs.local.importance = callArgs.remote.importance
            /\ SameDueDate(callArgs.local.dueDateTime, callArgs.remote.dueDateTime))

----------------------------------------------------------------------------
(* Claims about a task line and its children (SpecChildren).               *)

Ran == callResult.done /\ callResult.value.ran

\* Positions in the document before the command, counted from 1: the task
\* line, the blank lines below it, and the lines below it that do not start
\* with two spaces.
TaskAt == callArgs.cursor + 1
BlanksBelow == { k \in (TaskAt + 1)..Len(callArgs.before) : isEmpty(callArgs.before[k]) }
FlatBelow == { k \in (TaskAt + 1)..Len(callArgs.before) : callArgs.before[k].indent < 2 }
First(positions) == CHOOSE k \in positions : \A j \in positions : k <= j

\* The last line of the group as the scan rule has it: the line before the
\* first blank line, or the last line of the document.
LastOfGroup == IF BlanksBelow = {} THEN Len(callArgs.before) ELSE First(BlanksBelow) - 1

\* C29: the group under the task line ends at the first blank line after
\* it, or at the end of the document when no blank line follows; then every
\* line after the task line up to the last line of the document is in the
\* group and the replaced range runs from the task line to the end of the
\* last line of the group.
C29_ScanEnd ==
    Ran =>
        /\ callResult.value.group = SubSeq(callArgs.before, TaskAt + 1, LastOfGroup)
        /\ BlanksBelow = {} =>
              /\ callResult.value.replaced = "range"
              /\ callResult.value.start = TaskAt - 1
              /\ callResult.value.end = LastOfGroup - 1

\* With a blank line below the task the group is the lines before it and
\* the range runs from the task line to the blank line.
C29_BlankLineEndsScan ==
    (Ran /\ BlanksBelow # {}) =>
        /\ callResult.value.group = SubSeq(callArgs.before, TaskAt + 1, LastOfGroup)
        /\ callResult.value.replaced = "range"
        /\ callResult.value.start = TaskAt - 1
        /\ callResult.value.end = First(BlanksBelow) - 1

\* Without one the last line of the document is left out of the group, the
\* end of the range is the line before the task line, and the document is
\* not replaced from the task line on.
C29_NoBlankLine ==
    (Ran /\ BlanksBelow = {}) =>
        /\ callResult.value.group =
              SubSeq(callArgs.before, TaskAt + 1, Len(callArgs.before) - 1)
        /\ callResult.value.end = TaskAt - 2
        /\ callResult.value.replaced # "range"

\* The lines below the task line, before the command.
Below == { callArgs.before[k] : k \in (TaskAt + 1)..Len(callArgs.before) }

\* C30: only indented checklist-marked lines go to the checklist and only
\* other indented non-blank lines to the body; a line below the task that
\* is not indented by two spaces ends the group, is in neither, and stays
\* in the document as it was.
C30_GroupedByIndentation ==
    Ran =>
        /\ \A k \in 1..Len(callResult.value.childTasks) :
              \E line \in Below : /\ line.indent >= 2
                                  /\ startsWithChild(line)
                                  /\ trim(line) = callResult.value.childTasks[k]
        /\ \A k \in 1..Len(callResult.value.body) :
              \E line \in Below : /\ line.indent >= 2
                                  /\ ~startsWithChild(line)
                                  /\ ~isEmpty(trim(line))
                                  /\ trim(line) = callResult.value.body[k]
        /\ FlatBelow # {} =>
              /\ Len(callResult.value.group) <= First(FlatBelow) - TaskAt - 1
              /\ Len(doc) >= Len(callArgs.before) - First(FlatBelow) + 1
              /\ SubSeq(doc, Len(doc) - (Len(callArgs.before) - First(FlatBelow)), Len(doc))
                    = SubSeq(callArgs.before, First(FlatBelow), Len(callArgs.before))

\* The checklist does hold only indented checklist-marked lines.
C30_ChecklistOnlyMarked ==
    Ran =>
        \A k \in 1..Len(callResult.value.childTasks) :
            \E line \in Below : /\ startsWithChild(line)
                                /\ trim(line) = callResult.value.childTasks[k]

\* The body holds every other line of the scanned lines, indented or not.
C30_BodyTakesTheRest ==
    Ran =>
        callResult.value.body = bodyOf(callResult.value.group)

----------------------------------------------------------------------------
(* Claims about whole runs of the commands (Spec, SpecVault, SpecRuns).    *)

SelectionRun == cmd.op \in {"postTask", "getTask"}
RunEnded == cmd.pc \in {"done", "failed"}

\* The document as the run left it has the lines of the text read at the
\* start, in their order, and those outside the selection as they were.
FrameKept ==
    /\ Len(doc) = Len(cmd.source)
    /\ \A i \in 1..Len(cmd.source) : i \notin cmd.lines => doc[i] = cmd.source[i]

\* C31: postTask and getTask write the document exactly once, at the end of
\* the run, and the write leaves the lines outside the selection as they
\* were read at the start and keeps the number and order of lines.
C31_SelectionRunFrame ==
    (SelectionRun /\ RunEnded) =>
        /\ cmd.pc = "done"
        /\ doc = cmd.modifiedPage
        /\ mtime > cmd.mtime
        /\ FrameKept

\* A run that reaches its write keeps the frame.
C31_FrameWhenWritten ==
    (SelectionRun /\ cmd.pc = "done") =>
        /\ doc = cmd.modifiedPage
        /\ FrameKept

SecondRunDone == callArgs.runs = 2 /\ cmd.op = "syncVault" /\ cmd.pc = "done"

\* An entry whose line the run rewrote from the remote snapshot.
Pulled(item) == item.result # item.text

\* C32: a second syncVault, with no edit and no remote change since the
\* first, issues no updateTaskFromToDo and rewrites no document, and a line
\* rewritten from a remote snapshot parses to a record that equals the
\* snapshot.
C32_SyncConverges ==
    /\ SecondRunDone =>
          /\ Len(calls) = callArgs.calls
          /\ doc = callArgs.doc
    /\ cmd.op = "syncVault" =>
          \A item \in Items :
              Pulled(item) =>
                  equals(ObsidianTodoTask(settings.taskIdLookup, item.result), item.cachedTask)

\* The cases in which a rewritten line does not parse back to the
\* snapshot: an inProgress status, an importance other than normal, and a
\* remote task without due date under a line that has one.
ReadsBack(item) ==
    /\ item.cachedTask.status # "inProgress"
    /\ item.cachedTask.importance = "normal"
    /\ item.cachedTask.due = NoDate => item.todo.due = NoDate

\* In every other case the rewritten line equals the snapshot.
C32_PulledLineReadsBack ==
    cmd.op = "syncVault" =>
        \A item \in Items :
            (Pulled(item) /\ ReadsBack(item)) =>
                equals(ObsidianTodoTask(settings.taskIdLookup, item.result), item.cachedTask)

\* C33: a selected line whose list postTask can neither find nor create is
\* in the document written at the end of the run with the text it had
\* before the run.
C33_AbortedLineKeepsText ==
    (cmd.op = "postTask" /\ cmd.pc = "done") =>
        \A item \in Items :
            NoticesFor(item) # {} => doc[item.line] = cmd.source[item.line]

\* The line is written back empty.
C33_AbortedLineEmptied ==
    (cmd.op = "postTask" /\ cmd.pc = "done") =>
        \A item \in Items :
            NoticesFor(item) # {} => doc[item.line] = BlankLine

\* The lists the service had when the first run returned, and the id of the
\* one with a given name.
ListsOfFirstRun == Range(callArgs.lists)
EarlierList(name) == { list \in ListsOfFirstRun : list.displayName = name }

\* C34: with auto-creation on, a later postTask run on a line tagged with a
\* list name for which an earlier run created the list issues no second
\* createTaskList for the name and creates its task in that list.
C34_ListsNotDuplicated ==
    (callArgs.runs = 2 /\ cmd.op = "postTask") =>
        /\ \A k \in (Len(callArgs.lists) + 1)..Len(gateway.lists) :
              EarlierList(gateway.lists[k].displayName) = {}
        /\ \A item \in Items :
              (item.minted # NoAnchor /\ EarlierList(item.todo.listName) # {}) =>
                  \E list \in EarlierList(item.todo.listName) : item.listId = list.id

\* A list the cache has is not created again.
C34_CachedListsNotCreated ==
    cmd.op = "postTask" =>
        \A k \in 1..Len(gateway.lists) :
            k > Len(GatewayLists) =>
                ListIdByName(cmd.cachedTasksDelta, gateway.lists[k].displayName) = NoId

\* The remote tasks a run created for line i of the text it read.
CreatedFor(run, i) ==
    { item \in Range(run.items) : item.line = i /\ item.minted # NoAnchor }

\* C35: a command invoked while another is running does not interleave
\* with it: never two commands in flight, and two postTask runs that read
\* the same unanchored line never both create a remote task for it.
C35_OneRunInFlight ==
    /\ ~(InFlight(cmd) /\ InFlight(second))
    /\ (cmd.op = "postTask" /\ second.op = "postTask" /\ cmd.source = second.source) =>
          \A i \in 1..Len(cmd.source) :
              CreatedFor(cmd, i) = {} \/ CreatedFor(second, i) = {}

\* Each run on its own creates at most one remote task for a line.
C35_OneTaskPerLineAndRun ==
    \A i \in 1..MaxLines :
        /\ Cardinality(CreatedFor(cmd, i)) <= 1
        /\ Cardinality(CreatedFor(second, i)) <= 1

----------------------------------------------------------------------------
(* Claims about getTaskDelta calls in flight together (SpecConcurrent).    *)

RefreshesEnded == \A c \in Calls : ~Active(c)

\* A call that ended saw, while it was running, a file written by another.
Overlapped ==
    \E c \in Calls :
        /\ refresh[c].pc = "done"
        /\ refresh[c].tokens #
              { refresh[c].before.allLists[i].deltaLink :
                  i \in 1..Len(refresh[c].before.allLists) }

\* Every version recorded up to the link in the file is in the task list of
\* the file, or a newer one of the same task.
NoChangeLost ==
    \A list \in PersistedLists :
        list.deltaLink.issued => Covered(list.deltaLink.batch, list.allTasks)

NoDuplicateId ==
    \A list \in PersistedLists :
        \A i, j \in 1..Len(list.allTasks) :
            i # j => list.allTasks[i].id # list.allTasks[j].id

\* C36: under every interleaving of the getTaskDelta calls postTask runs
\* together, the persisted cache ends with every task change the gateway
\* reported up to the persisted token and with no two entries of one id.
C36_ConcurrentRefreshConsistent ==
    (RefreshesEnded /\ started >= 2) => (NoChangeLost /\ NoDuplicateId)

\* No change is lost, whatever the interleaving.
C36_NoChangeLost == (RefreshesEnded /\ started >= 2) => NoChangeLost

\* Two entries of one id come from pages taken into an empty list only.
C36_DuplicatesOnlyFromEmptyList ==
    (RefreshesEnded /\ \A first \in Range(callArgs.allLists) : Len(first.allTasks) > 0)
        => NoDuplicateId

C36_WitnessOverlap == RefreshesEnded /\ Overlapped /\ NoChangeLost

----------------------------------------------------------------------------
(* Claims about ActionQueue (SpecQueue, SpecQueueLive).                    *)

\* The runs of processQueue that have not ended, and the actions that were
\* called and have not settled.
LoopsActive == { r \in Runs : actionQueue.runs[r].pc \in {"action", "sleep"} }
Executing == { r \in Runs : actionQueue.runs[r].pc = "action" }
Thrown == { r \in Runs : actionQueue.runs[r].pc = "thrown" }

\* C37: at most one action is executing at any time, the actions are called
\* in the order addAction got them, also those added while an action runs
\* or while the queue sleeps, and addAction starts no second processQueue
\* while one is active.
C37_SerialFifo ==
    /\ Cardinality(Executing) <= 1
    /\ Cardinality(LoopsActive) <= 1
    /\ \A i \in 1..Len(actionQueue.order) : actionQueue.order[i] = i
    /\ \A i \in 1..Len(actionQueue.queue) :
          actionQueue.queue[i] = Len(actionQueue.order) + i
    /\ LoopsActive # {} => actionQueue.isProcessing

\* C37 witness: the third action was called after two others, having been
\* added while one was running and another waited in the queue.
C37_WitnessAddedWhileBusy ==
    /\ Len(actionQueue.order) >= 3
    /\ Executing # {}
    /\ Len(actionQueue.queue) > 0
    /\ Len(actionQueue.runs) = 1

Queued(a) == \E i \in 1..Len(actionQueue.queue) : actionQueue.queue[i] = a
Called(a) == \E i \in 1..Len(actionQueue.order) : actionQueue.order[i] = a

Drained == actionQueue.queue = <<>> /\ LoopsActive = {}

\* C38: when every called action's promise settles, by resolving or by
\* rejecting, every action given to addAction is called in the end; and
\* once the queue has drained isProcessing is false.
C38_EveryActionStarts ==
    /\ \A a \in 1..MaxActions : Queued(a) ~> Called(a)
    /\ [](Drained => ~actionQueue.isProcessing)

\* As long as no action rejects, every action is called in the end and a
\* drained queue has isProcessing false.
C38_StartsUnlessRejected ==
    /\ \A a \in 1..MaxActions : Queued(a) ~> (Called(a) \/ Thrown # {})
    /\ []((Drained /\ Thrown = {}) => ~actionQueue.isProcessing)

\* After a rejection isProcessing stays true and no queued action is called.
C38_RejectionStopsQueue ==
    [][Thrown # {} => /\ actionQueue'.isProcessing
                      /\ actionQueue'.order = actionQueue.order]_vars

====
